---------------------------- MODULE Spec2Model ----------------------------
(***************************************************************************)
(* A model of the mini-calendar tool: the pure calendar functions          *)
(* (calendar_logic.py), the holiday registry (holidays.py) and the layout  *)
(* controller of the calendar window (calendar_window.py), with the        *)
(* settings file it keeps (settings.py).                                   *)
(*                                                                         *)
(* Python values are modelled as follows.  None is the empty sequence <<>>  *)
(* and an optional integer n is <<n>>; a date is the triple                *)
(* <<year, month, day>>; a (year, month) tuple is <<year, month>>; a       *)
(* string is a TLA+ string; a list is a sequence; a dict is a function.    *)
(***************************************************************************)
EXTENDS Integers, Sequences, FiniteSets, TLC

VARIABLES
    \* --- a call of a pure function (calendar_logic.py, holidays.py) ------
    arg,        \* the arguments the behaviour starts from
    ret,        \* the value returned by the last call
    hist,       \* the names of the functions applied so far, in order
    \* --- the settings file and the running CalendarWindow ----------------
    file,                   \* the settings file
    today,                  \* date.today() as <<year, month>>
    center_year,
    center_month,
    _grid_cols,
    _grid_rows,
    _current_total_months,
    _panels,                \* the panel pool, a sequence of panel slots
    _month_width,
    _month_height,
    _saved_width,
    _saved_height,
    _saved_grid_cols,
    _saved_grid_rows,
    _showing,
    _resize_after_id,       \* None, or <<id>> of the debounce timer
    resize_jobs,            \* ids of the pending after(30, _handle_resize)
    end_showing_jobs,       \* number of pending after(200, _end_showing)
    win_state,              \* root.state(): "withdrawn" or "normal"
    fresh,                  \* TRUE right after a start of the program
    panels_created,         \* _MonthPanel objects constructed since the start
    max_total,              \* largest columns*rows displayed since the start
    rebuild_tick,           \* flips at every run of _rebuild_months()
    _holiday_map,           \* date -> the <<name, country>> of its holidays
    \* --- the view state of the CalendarWindow ---------------------------
    _theme,                 \* "light" or "dark"
    _enabled_holidays,      \* the set of enabled holiday keys
    _holiday_colors,        \* country code -> colour
    _marker_colors,         \* the marker palette, a list of colours
    _holidays_visible,
    _day_markers,           \* the items <<date, colour>> of the dict
    sel_start,              \* None or a date
    sel_end,                \* None or a date
    _dragging,
    \* --- main.py: the tray thread and the UI event loop ------------------
    after_queue             \* the callbacks of root.after(0, ...) not yet run

\* what the handlers of the window leave alone
callVars == <<arg, ret, hist, after_queue>>
winVars  == <<file, today, center_year, center_month, _grid_cols, _grid_rows,
              _current_total_months, _panels, _month_width, _month_height,
              _saved_width, _saved_height, _saved_grid_cols, _saved_grid_rows,
              _showing, _resize_after_id, resize_jobs, end_showing_jobs,
              win_state, fresh, panels_created, max_total, rebuild_tick,
              _holiday_map,
              _theme, _enabled_holidays, _holiday_colors, _marker_colors,
              _holidays_visible, _day_markers, sel_start, sel_end, _dragging>>
vars == <<callVars, winVars>>

\* the selection, and the rest of the view state
selVars == <<sel_start, sel_end, _dragging>>
viewVars == <<_theme, _enabled_holidays, _holiday_colors, _marker_colors,
              _holidays_visible, _day_markers>>

None == <<>>
Some(x) == <<x>>

---------------------------------------------------------------------------
(* Bounds of the model.                                                    *)

\* years the calendar functions are applied to (both century rules occur)
YearLo == 1896
YearHi == 2104
\* longest chain of prev_month / next_month calls
MaxChain == 2
\* years the holiday query is applied to (the lookup tables cover 2024-2036)
HolYearLo == 2021
HolYearHi == 2041
\* largest number of enabled holiday keys in one query
MaxEnabled == 3

---------------------------------------------------------------------------
(* Python's datetime / calendar arithmetic (proleptic Gregorian).          *)

IsLeap(y) == y % 4 = 0 /\ (y % 100 # 0 \/ y % 400 = 0)

DaysInMonth(y, m) ==
    IF m = 2 THEN (IF IsLeap(y) THEN 29 ELSE 28)
    ELSE IF m \in {4, 6, 9, 11} THEN 30 ELSE 31

DaysBeforeYear(y) ==
    LET p == y - 1 IN p * 365 + (p \div 4) - (p \div 100) + (p \div 400)

DaysBeforeMonth(y, m) ==
    <<0, 31, 59, 90, 120, 151, 181, 212, 243, 273, 304, 334>>[m]
        + (IF m > 2 /\ IsLeap(y) THEN 1 ELSE 0)

\* date(y, m, d).toordinal()
Ymd2Ord(y, m, d) == DaysBeforeYear(y) + DaysBeforeMonth(y, m) + d

\* date(y, m, d).weekday(): Monday = 0 .. Sunday = 6
Weekday(y, m, d) == (Ymd2Ord(y, m, d) + 6) % 7

\* the ordinal of the Monday that starts ISO week 1 of year y
IsoWeek1Monday(y) ==
    LET firstday == Ymd2Ord(y, 1, 1)
        firstweekday == (firstday + 6) % 7
        week1monday == firstday - firstweekday
    IN  IF firstweekday > 3 THEN week1monday + 7 ELSE week1monday

\* date(y, m, d).isocalendar()[1]
IsoWeek(y, m, d) ==
    LET ord == Ymd2Ord(y, m, d)
        week == (ord - IsoWeek1Monday(y)) \div 7
    IN  IF week < 0
        THEN ((ord - IsoWeek1Monday(y - 1)) \div 7) + 1
        ELSE IF week >= 52 /\ ord >= IsoWeek1Monday(y + 1)
             THEN 1
             ELSE week + 1

\* str(n) for a non-negative integer n
RECURSIVE str(_)
str(n) ==
    LET digit(k) == <<"0", "1", "2", "3", "4", "5", "6", "7", "8", "9">>[k + 1]
    IN  IF n < 10 THEN digit(n) ELSE str(n \div 10) \o digit(n % 10)

\* date + timedelta(days = n), for less than a year of days: the date of
\* the ordinal dt.toordinal() + n
AddDays(dt, n) ==
    LET ord == Ymd2Ord(dt[1], dt[2], dt[3]) + n
    IN  CHOOSE r \in {<<y, m, ord - Ymd2Ord(y, m, 0)>> :
                        y \in (dt[1] - 1)..(dt[1] + 1), m \in 1..12} :
            r[3] >= 1 /\ r[3] <= DaysInMonth(r[1], r[2])

---------------------------------------------------------------------------
(* calendar_logic.py                                                       *)

\* calendar.Calendar(firstweekday=0).itermonthdays(year, month)
itermonthdays_sunday(year, month) ==
    LET day1   == Weekday(year, month, 1)
        ndays  == DaysInMonth(year, month)
        before == (day1 - 6) % 7
        after  == (6 - day1 - ndays) % 7
    IN  [i \in 1..before |-> 0] \o [i \in 1..ndays |-> i] \o [i \in 1..after |-> 0]
itermonthdays(year, month) ==
    LET day1   == Weekday(year, month, 1)
        ndays  == DaysInMonth(year, month)
        before == day1 % 7
        after  == (0 - day1 - ndays) % 7
    IN  [i \in 1..before |-> 0] \o [i \in 1..ndays |-> i] \o [i \in 1..after |-> 0]

\* the for loop of month_grid: cut the days into rows of 7
RECURSIVE GridRows(_, _, _, _)
GridRows(days, i, row, grid) ==
    IF i > Len(days) THEN grid
    ELSE LET row2 == Append(row, IF days[i] # 0 THEN Some(days[i]) ELSE None)
         IN  IF Len(row2) = 7
             THEN GridRows(days, i + 1, <<>>, Append(grid, row2))
             ELSE GridRows(days, i + 1, row2, grid)

\* the while loop of month_grid: pad to exactly 6 rows
RECURSIVE PadRows(_)
PadRows_short(grid) ==
    IF Len(grid) < 5 THEN PadRows(Append(grid, [c \in 1..7 |-> None])) ELSE grid
PadRows(grid) ==
    IF Len(grid) < 6 THEN PadRows(Append(grid, [c \in 1..7 |-> None])) ELSE grid

month_grid(year, month) ==
    PadRows(GridRows(itermonthdays(year, month), 1, <<>>, <<>>))

\* next((d for d in row if d is not None), None)
FirstDay(row) ==
    LET idx == {c \in 1..Len(row) : row[c] # None}
    IN  IF idx = {} THEN None
        ELSE row[CHOOSE c \in idx : \A c2 \in idx : c <= c2]

iso_week_numbers_byrow(year, month) ==
    LET grid == month_grid(year, month)
    IN  [r \in 1..Len(grid) |->
            IF FirstDay(grid[r]) = None THEN ""
            ELSE str(IsoWeek(year, month, 1) + (r - 1))]
iso_week_numbers(year, month) ==
    LET grid == month_grid(year, month)
    IN  [r \in 1..Len(grid) |->
            LET day == FirstDay(grid[r])
            IN  IF day = None THEN ""
                ELSE str(IsoWeek(year, month, day[1]))]

prev_month(year, month) ==
    IF month = 1 THEN <<year - 1, 12>> ELSE <<year, month - 1>>

next_month_sameyear(year, month) ==
    IF month = 12 THEN <<year, 1>> ELSE <<year, month + 1>>
next_month(year, month) ==
    IF month = 12 THEN <<year + 1, 1>> ELSE <<year, month + 1>>

---------------------------------------------------------------------------
(* holidays.py                                                             *)

_easter_day0(year) ==
    LET a  == year % 19
        b  == year \div 100
        c  == year % 100
        d  == b \div 4
        e  == b % 4
        f  == (b + 8) \div 25
        g  == (b - f + 1) \div 3
        h  == (19 * a + b - d - g + 15) % 30
        i  == c \div 4
        k  == c % 4
        el == (32 + 2 * e + 2 * i - h - k) % 7
        m  == (a + 11 * h + 22 * el) \div 451
        month == (h + el - 7 * m + 114) \div 31
        day   == (h + el - 7 * m + 114) % 31
    IN  IF day = 0 THEN <<year, month, 1>> ELSE <<year, month, day>>
_easter(year) ==
    LET a  == year % 19
        b  == year \div 100
        c  == year % 100
        d  == b \div 4
        e  == b % 4
        f  == (b + 8) \div 25
        g  == (b - f + 1) \div 3
        h  == (19 * a + b - d - g + 15) % 30
        i  == c \div 4
        k  == c % 4
        el == (32 + 2 * e + 2 * i - h - k) % 7
        m  == (a + 11 * h + 22 * el) \div 451
        month == (h + el - 7 * m + 114) \div 31
        day   == (h + el - 7 * m + 114) % 31
    IN  <<year, month, day + 1>>

\* the date generators: each maps a year to a list of dates
_fixed(m, d) == [kind |-> "fixed", m |-> m, d |-> d]
_fixed_range(m, d, n) == [kind |-> "fixed_range", m |-> m, d |-> d, n |-> n]
_easter_rel(offset) == [kind |-> "easter_rel", offset |-> offset]
_from_table(table) == [kind |-> "table", table |-> table]
_from_table_multi(table, n) == [kind |-> "table_multi", table |-> table, n |-> n]

\* dates_fn(year) for a generator g
dates_fn_from1(g, year) ==
    CASE g.kind = "fixed" -> << <<year, g.m, g.d>> >>
      [] g.kind = "fixed_range" ->
            [i \in 1..g.n |-> AddDays(<<year, g.m, g.d>>, i)]
      [] g.kind = "easter_rel" -> << AddDays(_easter(year), g.offset) >>
      [] g.kind = "table" ->
            IF year \in DOMAIN g.table
            THEN << <<year, g.table[year][1], g.table[year][2]>> >>
            ELSE <<>>
      [] g.kind = "table_multi" ->
            IF year \notin DOMAIN g.table THEN <<>>
            ELSE LET start == <<year, g.table[year][1], g.table[year][2]>>
                 IN  [i \in 1..g.n |-> AddDays(start, i)]
dates_fn(g, year) ==
    CASE g.kind = "fixed" -> << <<year, g.m, g.d>> >>
      [] g.kind = "fixed_range" ->
            [i \in 1..g.n |-> AddDays(<<year, g.m, g.d>>, i - 1)]
      [] g.kind = "easter_rel" -> << AddDays(_easter(year), g.offset) >>
      [] g.kind = "table" ->
            IF year \in DOMAIN g.table
            THEN << <<year, g.table[year][1], g.table[year][2]>> >>
            ELSE <<>>
      [] g.kind = "table_multi" ->
            IF year \notin DOMAIN g.table THEN <<>>
            ELSE LET start == <<year, g.table[year][1], g.table[year][2]>>
                 IN  [i \in 1..g.n |-> AddDays(start, i - 1)]

\* a lookup table for the years 2024..2036, given as its 13 entries
Table(entries) == [y \in 2024..2036 |-> entries[y - 2023]]

_SPRING_FESTIVAL == Table(<<
    <<2, 10>>, <<1, 29>>, <<2, 17>>, <<2, 6>>,
    <<1, 26>>, <<2, 13>>, <<2, 3>>,  <<1, 23>>,
    <<2, 11>>, <<1, 31>>, <<2, 19>>, <<2, 8>>,
    <<1, 28>> >>)

_QINGMING == Table(<<
    <<4, 4>>, <<4, 4>>, <<4, 5>>, <<4, 5>>,
    <<4, 4>>, <<4, 4>>, <<4, 5>>, <<4, 5>>,
    <<4, 4>>, <<4, 4>>, <<4, 5>>, <<4, 5>>,
    <<4, 4>> >>)

_DRAGON_BOAT == Table(<<
    <<6, 10>>, <<5, 31>>, <<6, 19>>, <<6, 9>>,
    <<5, 28>>, <<6, 16>>, <<6, 5>>,  <<6, 24>>,
    <<6, 13>>, <<6, 2>>,  <<6, 22>>, <<6, 11>>,
    <<5, 31>> >>)

_MID_AUTUMN == Table(<<
    <<9, 17>>, <<10, 6>>, <<9, 25>>, <<9, 15>>,
    <<10, 3>>, <<9, 22>>, <<9, 12>>, <<10, 1>>,
    <<9, 19>>, <<9, 8>>,  <<9, 28>>, <<9, 16>>,
    <<9, 5>> >>)

\* the registry: (key, name, country, dates_fn)
HOLIDAYS == <<
    <<"ch_neujahr",        "Neujahr",        "CH", _fixed(1, 1)>>,
    <<"ch_berchtoldstag",  "Berchtoldstag",  "CH", _fixed(1, 2)>>,
    <<"ch_karfreitag",     "Karfreitag",     "CH", _easter_rel(-2)>>,
    <<"ch_ostermontag",    "Ostermontag",    "CH", _easter_rel(1)>>,
    <<"ch_tag_der_arbeit", "Tag der Arbeit", "CH", _fixed(5, 1)>>,
    <<"ch_auffahrt",       "Auffahrt",       "CH", _easter_rel(39)>>,
    <<"ch_pfingstmontag",  "Pfingstmontag",  "CH", _easter_rel(49)>>,
    <<"ch_bundesfeier",    "Bundesfeier",    "CH", _fixed(8, 1)>>,
    <<"ch_weihnachten",    "Weihnachten",    "CH", _fixed(12, 25)>>,
    <<"de_neujahr",             "Neujahr",                   "DE", _fixed(1, 1)>>,
    <<"de_karfreitag",          "Karfreitag",                "DE", _easter_rel(-2)>>,
    <<"de_ostermontag",         "Ostermontag",               "DE", _easter_rel(1)>>,
    <<"de_tag_der_arbeit",      "Tag der Arbeit",            "DE", _fixed(5, 1)>>,
    <<"de_christi_himmelfahrt", "Christi Himmelfahrt",       "DE", _easter_rel(39)>>,
    <<"de_pfingstmontag",       "Pfingstmontag",             "DE", _easter_rel(49)>>,
    <<"de_tag_dt_einheit",      "Tag der Deutschen Einheit", "DE", _fixed(10, 3)>>,
    <<"de_weihnachten1",        "1. Weihnachtstag",          "DE", _fixed(12, 25)>>,
    <<"de_weihnachten2",        "2. Weihnachtstag",          "DE", _fixed(12, 26)>>,
    <<"cn_neujahr",         "New Year's Day",       "CN", _fixed(1, 1)>>,
    <<"cn_spring_festival", "Spring Festival",      "CN", _from_table_multi(_SPRING_FESTIVAL, 3)>>,
    <<"cn_qingming",        "Qingming Festival",    "CN", _from_table(_QINGMING)>>,
    <<"cn_labour_day",      "Labour Day",           "CN", _fixed(5, 1)>>,
    <<"cn_dragon_boat",     "Dragon Boat Festival", "CN", _from_table(_DRAGON_BOAT)>>,
    <<"cn_mid_autumn",      "Mid-Autumn Festival",  "CN", _from_table(_MID_AUTUMN)>>,
    <<"cn_national_day",    "National Day",         "CN", _fixed_range(10, 1, 3)>> >>

\* _BY_KEY = {h[0]: h for h in HOLIDAYS}: a later entry replaces an earlier one
RegistryKeys == {HOLIDAYS[i][1] : i \in 1..Len(HOLIDAYS)}
_BY_KEY ==
    [k \in RegistryKeys |->
        HOLIDAYS[CHOOSE i \in 1..Len(HOLIDAYS) :
                    /\ HOLIDAYS[i][1] = k
                    /\ \A j \in 1..Len(HOLIDAYS) : HOLIDAYS[j][1] = k => j <= i]]

\* _BY_KEY.get(key)
ByKeyGet(key) == IF key \in DOMAIN _BY_KEY THEN _BY_KEY[key] ELSE None

\* for d in dates_fn(year): result.setdefault(d, []).append((name, country))
RECURSIVE AppendDates(_, _, _, _)
AppendDates_overwrite(result, dates, i, nc) ==
    IF i > Len(dates) THEN result
    ELSE LET d == dates[i]
             r2 == IF d \in DOMAIN result
                   THEN [result EXCEPT ![d] = <<nc>>]
                   ELSE result @@ (d :> <<nc>>)
         IN  AppendDates(r2, dates, i + 1, nc)
AppendDates(result, dates, i, nc) ==
    IF i > Len(dates) THEN result
    ELSE LET d == dates[i]
             r2 == IF d \in DOMAIN result
                   THEN [result EXCEPT ![d] = Append(@, nc)]
                   ELSE result @@ (d :> <<nc>>)
         IN  AppendDates(r2, dates, i + 1, nc)

\* the body of the loop "for key in enabled_keys" for one key
HolidayStep(result, year, key) ==
    LET entry == ByKeyGet(key)
    IN  IF entry = None THEN result
        ELSE AppendDates(result, dates_fn(entry[4], year), 1,
                         <<entry[2], entry[3]>>)

\* holidays_for_year(year, enabled_keys), the set enabled_keys being iterated
\* in the order `keys` (Python fixes no iteration order for a set of strings)
RECURSIVE HolidayLoop(_, _, _, _)
HolidayLoop_break(result, year, keys, i) ==
    IF i > Len(keys) \/ ByKeyGet(keys[i]) = None THEN result
    ELSE HolidayLoop(HolidayStep(result, year, keys[i]), year, keys, i + 1)
HolidayLoop(result, year, keys, i) ==
    IF i > Len(keys) THEN result
    ELSE HolidayLoop(HolidayStep(result, year, keys[i]), year, keys, i + 1)

holidays_for_year(year, keys) == HolidayLoop(<<>>, year, keys, 1)

---------------------------------------------------------------------------
(* settings.py                                                             *)

\* JSON values, as json.load() returns them and json.dump() writes them.
\* Every value carries its type first; JAbsent stands for a key an object
\* does not hold, so the members of an object are a function on all the keys
\* the model knows.
JAbsent == <<"absent">>
JNull == <<"null">>
JBool(b) == <<"bool", b>>
JInt(n) == <<"int", n>>
JStr(s) == <<"str", s>>
JList(items) == <<"list", items>>
JDict(members) == <<"object", members>>

\* the list of JSON strings of a list of str
JStrList(strs) == JList([i \in 1..Len(strs) |-> JStr(strs[i])])

\* The settings file: absent (FileNotFoundError), unreadable (another
\* OSError), bytes that are not UTF-8 text (UnicodeDecodeError), text that is
\* not JSON, as a partially written file is (JSONDecodeError), a JSON value
\* that is not an object, or a JSON object with the members `data`.
NoFile == [kind |-> "absent"]
Unreadable == [kind |-> "unreadable"]
Undecodable == [kind |-> "undecodable"]
InvalidJson == [kind |-> "invalid"]
JsonValue(v) == [kind |-> "json", value |-> v]
JsonObject(data) == [kind |-> "object", data |-> data]

SizeKeys == {"window_width", "window_height", "grid_cols", "grid_rows"}
\* the keys of _DEFAULTS, and the key on_ok() adds to the dict
DefaultKeys == SizeKeys \cup {"dark_mode", "holidays", "holiday_colors"}
SettingsKeys == DefaultKeys \cup {"marker_colors"}

\* the country codes of the holiday colours
ColorKeys == {"CH", "DE", "CN"}
DefaultHolidayColors ==
    [c \in ColorKeys |-> CASE c = "CH" -> JStr("#FF0000")
                           [] c = "DE" -> JStr("#FFD700")
                           [] c = "CN" -> JStr("#4CAF50")]

\* A settings dict.  dark_mode is a BOOLEAN; a size is None, <<n>> or, for
\* a Python bool (an int of value n), <<n, "bool">>; holidays is a list of
\* str; holiday_colors is the members of a JSON object; marker_colors is
\* None while the dict has no such key and <<list>> when it has.
_DEFAULTS ==
    [k \in SettingsKeys |->
        CASE k \in SizeKeys -> None
          [] k = "dark_mode" -> FALSE
          [] k = "holidays" -> <<>>
          [] k = "holiday_colors" -> DefaultHolidayColors
          [] k = "marker_colors" -> None]

\* isinstance(v, int) for a loaded JSON value v: a bool is an int
IsInt(v) == v[1] \in {"int", "bool"}

\* the Python int a loaded JSON number or bool is
PyInt(v) == IF v[1] = "bool" THEN <<IF v[2] THEN 1 ELSE 0, "bool">> ELSE <<v[2]>>

\* [k for k in items if isinstance(k, str)]
RECURSIVE StrItems(_)
StrItems(items) ==
    IF items = <<>> THEN <<>>
    ELSE (IF Head(items)[1] = "str" THEN <<Head(items)[2]>> ELSE <<>>)
            \o StrItems(Tail(items))

\* `key in stored` for a JSON string `stored`: the strings of the model are
\* a key or hold none
InString(key, text) == text = key

\* The exception that escapes load_settings(), "" when it returns: only
\* FileNotFoundError, JSONDecodeError and OSError are caught, so decoding
\* the bytes may raise UnicodeDecodeError, and `key in stored` or
\* `stored[key]` raises TypeError when stored is not a dict.
load_settings_raises(f) ==
    CASE f.kind = "undecodable" -> "UnicodeDecodeError"
      [] f.kind = "json" /\ f.value[1] \in {"null", "bool", "int"} -> "TypeError"
      [] f.kind = "json" /\ f.value[1] = "list"
            /\ (\E i \in 1..Len(f.value[2]), k \in DefaultKeys :
                    f.value[2][i] = JStr(k)) -> "TypeError"
      [] f.kind = "json" /\ f.value[1] = "str"
            /\ (\E k \in DefaultKeys : InString(k, f.value[2])) -> "TypeError"
      [] OTHER -> ""

\* the dict load_settings() returns for the settings file f
load_settings(f) ==
    IF f.kind # "object" THEN _DEFAULTS
    ELSE LET stored == f.data
         IN  [k \in SettingsKeys |->
                CASE k = "dark_mode" ->
                        IF stored[k][1] = "bool" THEN stored[k][2]
                        ELSE _DEFAULTS[k]
                  [] k \in SizeKeys ->
                        IF stored[k] # JAbsent /\ IsInt(stored[k])
                        THEN PyInt(stored[k]) ELSE _DEFAULTS[k]
                  [] k = "holidays" ->
                        IF stored[k][1] = "list" THEN StrItems(stored[k][2])
                        ELSE _DEFAULTS[k]
                  [] k = "holiday_colors" ->
                        IF stored[k][1] = "object" THEN stored[k][2]
                        ELSE _DEFAULTS[k]
                  [] k = "marker_colors" -> _DEFAULTS[k]]

\* json.dump() of the value v the settings dict holds for the key k
ToJson(k, v) ==
    CASE k = "dark_mode" -> JBool(v)
      [] k \in SizeKeys ->
            IF v = None THEN JNull
            ELSE IF Len(v) = 2 THEN JBool(v[1] = 1) ELSE JInt(v[1])
      [] k = "holidays" -> JStrList(v)
      [] k = "holiday_colors" -> JDict(v)
      [] k = "marker_colors" -> IF v = None THEN JAbsent ELSE JStrList(v[1])

\* the file after save_settings(settings)
save_settings(settings) ==
    JsonObject([k \in SettingsKeys |-> ToJson(k, settings[k])])

---------------------------------------------------------------------------
(* calendar_window.py: the layout controller                               *)

\* the sizes a <Configure> event reports fit at most MaxMonths months
MaxMonths == 4
\* how many months the single and double arrows may move the center back
\* from today's month (the triple arrows move it back one year)
MaxDrift == 2
\* pending after(200, _end_showing) timers
MaxEndShowing == 2

\* winfo_reqwidth() / winfo_reqheight() of a month panel's frame
FrameReqWidth == 88
FrameReqHeight == 146

\* date.today(), as <<year, month>>
TodayChoices == {<<2026, 1>>}

\* The sizes root.winfo_width() / winfo_height() report in _on_configure:
\* one too small for a single month, for every grid of c columns and r rows
\* with at most MaxMonths months in at most two rows one that leaves room
\* for just that grid,
FitChoices ==
    {<<0, 0>>} \cup {cr \in (1..MaxMonths) \X (1..2) :
                        cr[1] * cr[2] <= MaxMonths}
\* and the window of 520 x 340 pixels.
Sizes ==
    {<<24 + cr[1] * (FrameReqWidth + 12) + 6,
       50 + cr[2] * (FrameReqHeight + 4) + 6>> : cr \in FitChoices}
        \cup {<<520, 340>>}

Max(a, b) == IF a >= b THEN a ELSE b

\* a fresh _MonthPanel: its frame is not gridded, its header has no text
NewPanel == [pos |-> None, ym |-> None]

\* months_before = (total - 1) // 2
months_before_half(total) == total \div 2
months_before(total) == (total - 1) \div 2

\* for _ in range(n): y, m = prev_month(y, m)
RECURSIVE StepBack(_, _)
StepBack(ym, n) ==
    IF n <= 0 THEN ym ELSE StepBack(prev_month(ym[1], ym[2]), n - 1)

\* for _ in range(n): y, m = next_month(y, m)
RECURSIVE StepForward(_, _)
StepForward(ym, n) ==
    IF n <= 0 THEN ym ELSE StepForward(next_month(ym[1], ym[2]), n - 1)

\* for _ in range(total): month_list.append((y, m)); y, m = next_month(y, m)
RECURSIVE MonthList(_, _)
MonthList(ym, total) ==
    IF total <= 0 THEN <<>>
    ELSE <<ym>> \o MonthList(next_month(ym[1], ym[2]), total - 1)

\* while len(self._panels) < total: self._panels.append(_MonthPanel(...))
RECURSIVE GrowPool(_, _)
GrowPool_fresh(panels, total) == [i \in 1..total |-> NewPanel]
GrowPool(panels, total) ==
    IF Len(panels) < total THEN GrowPool(Append(panels, NewPanel), total)
    ELSE panels

\* the panels after "Update active panels" and "Hide excess panels"
PlacePanels(pool, month_list, cols) ==
    [i \in 1..Len(pool) |->
        IF i <= Len(month_list)
        THEN [pos |-> <<(i - 1) \div cols, (i - 1) % cols>>,
              ym  |-> month_list[i]]
        ELSE [pos |-> None, ym |-> None]]

\* List of the enabled keys in the order of the dialog's check boxes
\* (the registry's order)
RegistryOrder == [i \in 1..Len(HOLIDAYS) |-> HOLIDAYS[i][1]]
KeyList(enabled, i) ==
    SelectSeq(SubSeq(RegistryOrder, i, Len(RegistryOrder)),
              LAMBDA k : k \in enabled)

\* visible_years = set(y for y, _m in month_list), in ascending order
VisibleYears(month_list) ==
    IF month_list = <<>> THEN <<>>
    ELSE LET lo == month_list[1][1]
             hi == month_list[Len(month_list)][1]
         IN  [i \in 1..(hi - lo + 1) |-> lo + i - 1]

\* for y in visible_years: self._holiday_map.update(holidays_for_year(y, ...))
RECURSIVE HolidayMapLoop(_, _, _)
HolidayMapLoop(result, years, keys) ==
    IF years = <<>> THEN result
    ELSE HolidayMapLoop(holidays_for_year(Head(years), keys) @@ result,
                        Tail(years), keys)

\* The _holiday_map that _rebuild_months() computes for the visible years
\* and the enabled keys.  The set object _enabled_holidays is the same one
\* at every rebuild until on_ok() replaces it, and is iterated in the same
\* order each time: here the registry's.
HolidayMap(visible_years, enabled) ==
    HolidayMapLoop(<<>>, visible_years, KeyList(enabled, 1))

\* The fields _rebuild_months() assigns, for the pool `panels`, the measured
\* month width `mw` and height `mh`, the grid cols x rows and the center
\* (cy, cm); `built` counts the _MonthPanel objects it constructs.
RebuildMonths(panels, mw, mh, cols, rows, cy, cm) ==
    LET total == cols * rows
        pool  == GrowPool(panels, total)
        first == StepBack(<<cy, cm>>, months_before(total))
        month_list == MonthList(first, total)
        measure == mw = 0 /\ month_list # <<>>
    IN  [_current_total_months |-> total,
         visible_years |-> VisibleYears(month_list),
         _panels       |-> PlacePanels(pool, month_list, cols),
         built         |-> Len(pool) - Len(panels),
         _month_width  |-> IF measure THEN FrameReqWidth + 12 ELSE mw,
         _month_height |-> IF measure THEN FrameReqHeight + 4 ELSE mh]

\* _rebuild_months() as a step of the running window, `enabled` being the
\* value of _enabled_holidays when it runs
RebuildWith(cols, rows, cy, cm, enabled) ==
    LET r == RebuildMonths(_panels, _month_width, _month_height,
                           cols, rows, cy, cm)
    IN  /\ _holiday_map' = HolidayMap(r.visible_years, enabled)
        /\ _current_total_months' = r._current_total_months
        /\ _panels' = r._panels
        /\ panels_created' = panels_created + r.built
        /\ max_total' = Max(max_total, r._current_total_months)
        /\ _month_width' = r._month_width
        /\ _month_height' = r._month_height
        /\ rebuild_tick' = ~rebuild_tick

Rebuild(cols, rows, cy, cm) ==
    RebuildWith(cols, rows, cy, cm, _enabled_holidays)

\* the default of settings.get("marker_colors", ...)
DefaultMarkerColors == <<"#E74C3C", "#9B59B6", "#1ABC9C", "#F39C12">>

\* CalendarWindow.__init__() reading the settings file f on the day td
NewWindow(f, td) ==
    LET settings == load_settings(f)
        r == RebuildMonths(<<>>, 0, 0, 1, 1, td[1], td[2])
    IN  [_saved_width      |-> settings["window_width"],
         _saved_height     |-> settings["window_height"],
         _saved_grid_cols  |-> settings["grid_cols"],
         _saved_grid_rows  |-> settings["grid_rows"],
         _theme            |-> IF settings["dark_mode"] THEN "dark" ELSE "light",
         _enabled_holidays |-> {settings["holidays"][i] :
                                    i \in 1..Len(settings["holidays"])},
         _holiday_colors   |-> settings["holiday_colors"],
         _marker_colors    |-> IF settings["marker_colors"] = None
                               THEN DefaultMarkerColors
                               ELSE settings["marker_colors"][1],
         center_year       |-> td[1],
         center_month      |-> td[2],
         _showing          |-> FALSE,
         _grid_cols        |-> 1,
         _grid_rows        |-> 1,
         _resize_after_id  |-> None,
         _current_total_months |-> r._current_total_months,
         _panels           |-> r._panels,
         _month_width      |-> r._month_width,
         _month_height     |-> r._month_height,
         _holiday_map      |-> HolidayMap(r.visible_years,
                                    {settings["holidays"][i] :
                                        i \in 1..Len(settings["holidays"])}),
         built             |-> r.built]

\* the state right after the program has constructed its window
Started(f, td) ==
    LET w == NewWindow(f, td)
    IN  /\ file = f
        /\ today = td
        /\ fresh = TRUE
        /\ center_year = w.center_year
        /\ center_month = w.center_month
        /\ _grid_cols = w._grid_cols
        /\ _grid_rows = w._grid_rows
        /\ _current_total_months = w._current_total_months
        /\ _panels = w._panels
        /\ _month_width = w._month_width
        /\ _month_height = w._month_height
        /\ _saved_width = w._saved_width
        /\ _saved_height = w._saved_height
        /\ _saved_grid_cols = w._saved_grid_cols
        /\ _saved_grid_rows = w._saved_grid_rows
        /\ _showing = w._showing
        /\ _resize_after_id = w._resize_after_id
        /\ resize_jobs = {}
        /\ end_showing_jobs = 0
        /\ win_state = "withdrawn"
        /\ panels_created = w.built
        /\ max_total = w._current_total_months
        /\ rebuild_tick = TRUE
        /\ _holiday_map = w._holiday_map
        /\ _theme = w._theme
        /\ _enabled_holidays = w._enabled_holidays
        /\ _holiday_colors = w._holiday_colors
        /\ _marker_colors = w._marker_colors
        /\ _holidays_visible = TRUE
        /\ _day_markers = {}
        /\ sel_start = None
        /\ sel_end = None
        /\ _dragging = FALSE
        /\ after_queue = <<>>

\* --- navigation ----------------------------------------------------------

\* _clear_selection()
ClearSelection ==
    /\ sel_start' = None
    /\ sel_end' = None
    /\ _dragging' = FALSE

MonthIndex(ym) == ym[1] * 12 + (ym[2] - 1)
InDrift(ym) ==
    LET back == MonthIndex(today) - MonthIndex(ym)
    IN  back \in 0..MaxDrift \/ back = 12

layoutVars == <<_grid_cols, _grid_rows, _saved_width, _saved_height,
                _saved_grid_cols, _saved_grid_rows, _showing,
                _resize_after_id, resize_jobs, end_showing_jobs>>

\* _navigate(direction): a click on the single arrows
Navigate(direction) ==
    LET ym == IF direction < 0 THEN prev_month(center_year, center_month)
              ELSE next_month(center_year, center_month)
    IN  /\ win_state = "normal"
        /\ InDrift(ym)
        /\ center_year' = ym[1]
        /\ center_month' = ym[2]
        /\ Rebuild(_grid_cols, _grid_rows, ym[1], ym[2])
        /\ UNCHANGED <<callVars, file, today, layoutVars, win_state,
                       viewVars, selVars>>
        /\ fresh' = FALSE

\* _navigate_page(direction): a click on the double arrows
NavigatePage(direction) ==
    LET steps == _current_total_months
        ym == IF direction > 0
              THEN StepForward(<<center_year, center_month>>, steps)
              ELSE StepBack(<<center_year, center_month>>, steps)
    IN  /\ win_state = "normal"
        /\ InDrift(ym)
        /\ center_year' = ym[1]
        /\ center_month' = ym[2]
        /\ Rebuild(_grid_cols, _grid_rows, ym[1], ym[2])
        /\ UNCHANGED <<callVars, file, today, layoutVars, win_state,
                       viewVars, selVars>>
        /\ fresh' = FALSE

\* _navigate_year(direction): a click on the triple arrows
NavigateYear(direction) ==
    /\ win_state = "normal"
    /\ InDrift(<<center_year + direction, center_month>>)
    /\ center_year' = center_year + direction
    /\ UNCHANGED center_month
    /\ Rebuild(_grid_cols, _grid_rows, center_year + direction, center_month)
    /\ UNCHANGED <<callVars, file, today, layoutVars, win_state, viewVars,
                   selVars>>
    /\ fresh' = FALSE

\* _go_today(): a click on "Today"
GoToday ==
    /\ win_state = "normal"
    /\ center_year' = today[1]
    /\ center_month' = today[2]
    /\ ClearSelection
    /\ Rebuild(_grid_cols, _grid_rows, today[1], today[2])
    /\ UNCHANGED <<callVars, file, today, layoutVars, win_state, viewVars>>
    /\ fresh' = FALSE

\* --- persistence ---------------------------------------------------------

\* _persist_size() with the grid (cols, rows): the file it leaves
PersistSize_swapped(f, width, height, cols, rows) ==
    LET settings == load_settings(f)
    IN  save_settings([settings EXCEPT !["window_width"]  = width,
                                       !["window_height"] = height,
                                       !["grid_cols"]     = Some(rows),
                                       !["grid_rows"]     = Some(cols)])
PersistSize(f, width, height, cols, rows) ==
    LET settings == load_settings(f)
    IN  save_settings([settings EXCEPT !["window_width"]  = width,
                                       !["window_height"] = height,
                                       !["grid_cols"]     = Some(cols),
                                       !["grid_rows"]     = Some(rows)])

\* --- resize: auto-fit the month count to the window ----------------------

\* root.after(30, self._handle_resize): a timer id not in use
NewJobId(jobs) == CHOOSE id \in 1..(Cardinality(jobs) + 1) : id \notin jobs

\* _on_configure(event): the window reports width w and height h; is_root
\* tells whether event.widget is the root window
Configure_nocancel(w, h, is_root) ==
    /\ win_state = "normal"
    /\ IF _showing \/ ~is_root \/ _month_width <= 0 \/ _month_height <= 0
       THEN UNCHANGED vars
       ELSE LET id == NewJobId(resize_jobs)
            IN  /\ _saved_width' = Some(w)
                /\ _saved_height' = Some(h)
                /\ resize_jobs' = resize_jobs \cup {id}
                /\ _resize_after_id' = Some(id)
                /\ UNCHANGED <<callVars, file, today, center_year,
                               center_month, _grid_cols, _grid_rows,
                               _current_total_months, _panels, _month_width,
                               _month_height, _saved_grid_cols,
                               _saved_grid_rows, _showing, end_showing_jobs,
                               win_state, panels_created, max_total,
                               rebuild_tick, _holiday_map, viewVars,
                               selVars>>
                /\ fresh' = FALSE
Configure(w, h, is_root) ==
    /\ win_state = "normal"
    /\ IF _showing \/ ~is_root \/ _month_width <= 0 \/ _month_height <= 0
       THEN UNCHANGED vars
       ELSE LET kept == IF _resize_after_id # None
                        THEN resize_jobs \ {_resize_after_id[1]}
                        ELSE resize_jobs
                id == NewJobId(kept)
            IN  /\ _saved_width' = Some(w)
                /\ _saved_height' = Some(h)
                /\ resize_jobs' = kept \cup {id}
                /\ _resize_after_id' = Some(id)
                /\ UNCHANGED <<callVars, file, today, center_year,
                               center_month, _grid_cols, _grid_rows,
                               _current_total_months, _panels, _month_width,
                               _month_height, _saved_grid_cols,
                               _saved_grid_rows, _showing, end_showing_jobs,
                               win_state, panels_created, max_total,
                               rebuild_tick, _holiday_map, viewVars,
                               selVars>>
                /\ fresh' = FALSE

\* cols = max(1, (self._saved_width - 24) // self._month_width)
FitCols_nomargin(width, mw) == Max(1, width \div mw)
FitCols(width, mw) == Max(1, (width - 24) \div mw)
\* rows = max(1, (self._saved_height - 50) // self._month_height)
FitRows(height, mh) == Max(1, (height - 50) \div mh)

\* _handle_resize(): the debounce timer `id` fires
HandleResize_always(id) ==
    /\ id \in resize_jobs
    /\ resize_jobs' = resize_jobs \ {id}
    /\ _resize_after_id' = None
    /\ LET cols == FitCols(_saved_width[1], _month_width)
           rows == FitRows(_saved_height[1], _month_height)
       IN  /\ _grid_cols' = cols
           /\ _grid_rows' = rows
           /\ _saved_grid_cols' = Some(cols)
           /\ _saved_grid_rows' = Some(rows)
           /\ Rebuild(cols, rows, center_year, center_month)
           /\ file' = PersistSize(file, _saved_width, _saved_height,
                                  cols, rows)
    /\ UNCHANGED <<callVars, today, center_year, center_month, _saved_width,
                   _saved_height, _showing, end_showing_jobs, win_state,
                   viewVars, selVars>>
    /\ fresh' = FALSE
HandleResize(id) ==
    /\ id \in resize_jobs
    /\ resize_jobs' = resize_jobs \ {id}
    /\ _resize_after_id' = None
    /\ LET cols == FitCols(_saved_width[1], _month_width)
           rows == FitRows(_saved_height[1], _month_height)
       IN  IF cols # _grid_cols \/ rows # _grid_rows
           THEN /\ _grid_cols' = cols
                /\ _grid_rows' = rows
                /\ _saved_grid_cols' = Some(cols)
                /\ _saved_grid_rows' = Some(rows)
                /\ Rebuild(cols, rows, center_year, center_month)
                /\ file' = PersistSize(file, _saved_width, _saved_height,
                                       cols, rows)
           ELSE UNCHANGED <<_grid_cols, _grid_rows, _saved_grid_cols,
                            _saved_grid_rows, _current_total_months, _panels,
                            panels_created, max_total, _month_width,
                            _month_height, rebuild_tick, _holiday_map,
                            file>>
    /\ UNCHANGED <<callVars, today, center_year, center_month, _saved_width,
                   _saved_height, _showing, end_showing_jobs, win_state,
                   viewVars, selVars>>
    /\ fresh' = FALSE

\* --- show / hide / toggle ------------------------------------------------

\* the default grid of show()
DefaultCols == 3
DefaultRows == 1

\* show()
Show_partial ==
    LET cols == IF _saved_grid_cols # None THEN _saved_grid_cols[1]
                ELSE DefaultCols
        rows == IF _saved_grid_rows # None THEN _saved_grid_rows[1]
                ELSE DefaultRows
    IN  /\ end_showing_jobs < MaxEndShowing
        /\ center_year' = today[1]
        /\ center_month' = today[2]
        /\ _grid_cols' = cols
        /\ _grid_rows' = rows
        /\ ClearSelection
        /\ _showing' = TRUE
        /\ Rebuild(cols, rows, today[1], today[2])
        /\ win_state' = "normal"
        /\ end_showing_jobs' = end_showing_jobs + 1
        /\ UNCHANGED <<arg, ret, hist, file, today, _saved_width, _saved_height,
                       _saved_grid_cols, _saved_grid_rows, _resize_after_id,
                       resize_jobs, viewVars>>
        /\ fresh' = FALSE
Show ==
    LET restore == _saved_grid_cols # None /\ _saved_grid_rows # None
        cols == IF restore THEN _saved_grid_cols[1] ELSE DefaultCols
        rows == IF restore THEN _saved_grid_rows[1] ELSE DefaultRows
    IN  /\ end_showing_jobs < MaxEndShowing
        /\ center_year' = today[1]
        /\ center_month' = today[2]
        /\ _grid_cols' = cols
        /\ _grid_rows' = rows
        /\ ClearSelection
        /\ _showing' = TRUE
        /\ Rebuild(cols, rows, today[1], today[2])
        /\ win_state' = "normal"
        /\ end_showing_jobs' = end_showing_jobs + 1
        /\ UNCHANGED <<arg, ret, hist, file, today, _saved_width, _saved_height,
                       _saved_grid_cols, _saved_grid_rows, _resize_after_id,
                       resize_jobs, viewVars>>
        /\ fresh' = FALSE

\* hide(): the close button, the window manager's close, or toggle()
Hide_nopersist ==
    /\ win_state' = "withdrawn"
    /\ UNCHANGED <<arg, ret, hist, file, today, center_year, center_month,
                   _grid_cols, _grid_rows, _current_total_months, _panels,
                   _month_width, _month_height, _saved_width, _saved_height,
                   _saved_grid_cols, _saved_grid_rows, _showing,
                   _resize_after_id, resize_jobs, end_showing_jobs,
                   panels_created, max_total, rebuild_tick, _holiday_map,
                   viewVars,
                   selVars>>
    /\ fresh' = FALSE
Hide ==
    /\ file' = IF _saved_width # None /\ _saved_height # None
               THEN PersistSize(file, _saved_width, _saved_height,
                                _grid_cols, _grid_rows)
               ELSE file
    /\ win_state' = "withdrawn"
    /\ UNCHANGED <<arg, ret, hist, today, center_year, center_month, _grid_cols,
                   _grid_rows, _current_total_months, _panels, _month_width,
                   _month_height, _saved_width, _saved_height,
                   _saved_grid_cols, _saved_grid_rows, _showing,
                   _resize_after_id, resize_jobs, end_showing_jobs,
                   panels_created, max_total, rebuild_tick, _holiday_map,
                   viewVars,
                   selVars>>
    /\ fresh' = FALSE

\* toggle()
toggle == IF win_state = "withdrawn" THEN Show ELSE Hide

\* the tray icon's "Show Calendar", once the event loop runs toggle()
Toggle == toggle /\ UNCHANGED after_queue

\* a click on the close button or the window manager's close request
Close == win_state = "normal" /\ Hide /\ UNCHANGED after_queue

\* _end_showing(): a timer set by show() fires
EndShowing ==
    /\ end_showing_jobs > 0
    /\ end_showing_jobs' = end_showing_jobs - 1
    /\ _showing' = FALSE
    /\ UNCHANGED <<callVars, file, today, center_year, center_month,
                   _grid_cols, _grid_rows, _current_total_months, _panels,
                   _month_width, _month_height, _saved_width, _saved_height,
                   _saved_grid_cols, _saved_grid_rows, _resize_after_id,
                   resize_jobs, win_state, panels_created,
                   max_total, rebuild_tick, _holiday_map, viewVars,
                   selVars>>
    /\ fresh' = FALSE

\* --- the settings dialog -------------------------------------------------

\* open_settings.on_ok(): OK in the settings dialog, with the dark-mode
\* check box new_dark, the checked holiday keys new_enabled (a list), the
\* country colours new_colors and the marker palette marker_vals.  It writes
\* the settings and, through _apply_theme(), rebuilds the months.
SettingsOk(new_dark, new_enabled, new_colors, marker_vals) ==
    LET settings == load_settings(file)
    IN  /\ file' = save_settings(
                    [settings EXCEPT !["dark_mode"] = new_dark,
                                     !["holidays"] = new_enabled,
                                     !["holiday_colors"] = new_colors,
                                     !["marker_colors"] = Some(marker_vals)])
        /\ _theme' = IF new_dark THEN "dark" ELSE "light"
        /\ _enabled_holidays' = {new_enabled[i] : i \in 1..Len(new_enabled)}
        /\ _holiday_colors' = new_colors
        /\ _marker_colors' = marker_vals
        /\ RebuildWith(_grid_cols, _grid_rows, center_year, center_month,
                       {new_enabled[i] : i \in 1..Len(new_enabled)})
        /\ UNCHANGED <<callVars, today, center_year, center_month,
                       layoutVars, win_state, _holidays_visible,
                       _day_markers, selVars>>
        /\ fresh' = FALSE

\* OK in a settings dialog in which nothing was changed
SettingsOkUnchanged ==
    SettingsOk(_theme = "dark", KeyList(_enabled_holidays, 1),
               _holiday_colors, _marker_colors)

\* --- drag-to-select ------------------------------------------------------

\* the months on display: those of the panels that are placed in the grid
DisplayedMonths ==
    {_panels[i].ym : i \in {i \in 1..Len(_panels) : _panels[i].pos # None}}

\* the dates of the day cells on display: the values of _widget_dates and
\* the keys of _date_widgets, which _fill_panel() fills
DisplayedDates ==
    UNION {{<<_panels[i].ym[1], _panels[i].ym[2], d>> :
                d \in 1..DaysInMonth(_panels[i].ym[1], _panels[i].ym[2])} :
           i \in {i \in 1..Len(_panels) : _panels[i].pos # None}}

\* the day cell of date d is on display
OnDisplay(d) ==
    /\ d[3] \in 1..DaysInMonth(d[1], d[2])
    /\ \E i \in 1..Len(_panels) :
            _panels[i].pos # None /\ _panels[i].ym = <<d[1], d[2]>>

\* d1 <= d2 for dates
DateLE(d1, d2) == Ymd2Ord(d1[1], d1[2], d1[3]) <= Ymd2Ord(d2[1], d2[2], d2[3])

\* _sel_range(): <<lo, hi>>, or <<None, None>>
_sel_range(start, end) ==
    IF start # None /\ end # None
    THEN IF DateLE(start, end) THEN <<start, end>> ELSE <<end, start>>
    ELSE <<None, None>>

\* the variables the pointer and marker handlers leave alone
shellVars == <<file, today, center_year, center_month, _grid_cols, _grid_rows,
               _current_total_months, _panels, _month_width, _month_height,
               _saved_width, _saved_height, _saved_grid_cols,
               _saved_grid_rows, _showing, _resize_after_id, resize_jobs,
               end_showing_jobs, win_state, panels_created, max_total,
               rebuild_tick, _holiday_map>>

\* _on_press(event): d is the date of the widget pressed, None when the
\* widget is not a day cell
OnPress(d) ==
    /\ win_state = "normal"
    /\ d # None => OnDisplay(d)
    /\ IF d # None
       THEN /\ sel_start' = d
            /\ sel_end' = d
            /\ _dragging' = TRUE
       ELSE UNCHANGED selVars
    /\ UNCHANGED <<callVars, shellVars, viewVars>>
    /\ fresh' = FALSE

\* _on_motion(event): w is the date of the widget under the pointer, None
\* when there is no day cell under it
OnMotion_always(w) ==
    /\ win_state = "normal"
    /\ w # None => OnDisplay(w)
    /\ sel_end' = IF w # None /\ w # sel_end THEN w ELSE sel_end
    /\ UNCHANGED <<callVars, shellVars, viewVars, sel_start, _dragging>>
    /\ fresh' = FALSE
OnMotion(w) ==
    /\ win_state = "normal"
    /\ w # None => OnDisplay(w)
    /\ sel_end' = IF _dragging /\ w # None /\ w # sel_end THEN w ELSE sel_end
    /\ UNCHANGED <<callVars, shellVars, viewVars, sel_start, _dragging>>
    /\ fresh' = FALSE

\* _on_release(event): w as for _on_motion
OnRelease_always(w) ==
    /\ win_state = "normal"
    /\ w # None => OnDisplay(w)
    /\ _dragging' = FALSE
    /\ sel_end' = IF w # None THEN w ELSE sel_end
    /\ UNCHANGED <<callVars, shellVars, viewVars, sel_start>>
    /\ fresh' = FALSE
OnRelease(w) ==
    /\ win_state = "normal"
    /\ w # None => OnDisplay(w)
    /\ _dragging' = FALSE
    /\ sel_end' = IF _dragging /\ w # None THEN w ELSE sel_end
    /\ UNCHANGED <<callVars, shellVars, viewVars, sel_start>>
    /\ fresh' = FALSE

Escape_hides ==
    /\ win_state = "normal"
    /\ Hide
    /\ UNCHANGED after_queue

\* _on_escape(): Escape clears the selection if there is one, else hides
Escape ==
    /\ win_state = "normal"
    /\ IF sel_start # None
       THEN /\ ClearSelection
            /\ UNCHANGED <<callVars, shellVars, viewVars>>
            /\ fresh' = FALSE
       ELSE Hide /\ UNCHANGED after_queue

\* --- day markers and the holiday switch ----------------------------------

\* the targets of _on_right_click(event) on the day cell of date d
Targets(d) ==
    LET r == _sel_range(sel_start, sel_end)
    IN  IF r[1] # None /\ r[1] # r[2] /\ DateLE(r[1], d) /\ DateLE(d, r[2])
        THEN {dd \in DisplayedDates : DateLE(r[1], dd) /\ DateLE(dd, r[2])}
        ELSE {d}

\* the dates that carry a marker
Marked == {it[1] : it \in _day_markers}

markerFrame == <<_theme, _enabled_holidays, _holiday_colors, _marker_colors,
                 _holidays_visible>>

\* a right click on the day cell of date d and the choice of the colour
\* `color` in the menu: _set_markers(targets, color)
SetMarkers(d, color) ==
    /\ win_state = "normal"
    /\ OnDisplay(d)
    /\ \E i \in 1..Len(_marker_colors) : _marker_colors[i] = color
    /\ _day_markers' = {it \in _day_markers : it[1] \notin Targets(d)}
                            \cup {<<t, color>> : t \in Targets(d)}
    /\ UNCHANGED <<callVars, shellVars, markerFrame, selVars>>
    /\ fresh' = FALSE

\* a right click on the day cell of date d and the choice of "Remove", which
\* the menu offers when a target is marked: _remove_markers(targets)
RemoveMarkers(d) ==
    /\ win_state = "normal"
    /\ OnDisplay(d)
    /\ Targets(d) \cap Marked # {}
    /\ _day_markers' = {it \in _day_markers : it[1] \notin Targets(d)}
    /\ UNCHANGED <<callVars, shellVars, markerFrame, selVars>>
    /\ fresh' = FALSE

\* _clear_markers(): a click on the footer's clear button
ClearMarkers ==
    /\ win_state = "normal"
    /\ _day_markers' = {}
    /\ UNCHANGED <<callVars, shellVars, markerFrame, selVars>>
    /\ fresh' = FALSE

\* _toggle_holidays(): a click on the footer's holiday button
ToggleHolidays ==
    /\ win_state = "normal"
    /\ _holidays_visible' = ~_holidays_visible
    /\ UNCHANGED <<callVars, shellVars, _theme, _enabled_holidays,
                   _holiday_colors, _marker_colors, _day_markers, selVars>>
    /\ fresh' = FALSE

\* --- exit and restart ----------------------------------------------------

\* main.on_exit._quit() followed by a new start of the program: the new
\* CalendarWindow reads the settings file the old one left
Restart ==
    LET w == NewWindow(file, today)
    IN  /\ fresh' = TRUE
        /\ center_year' = w.center_year
        /\ center_month' = w.center_month
        /\ _grid_cols' = w._grid_cols
        /\ _grid_rows' = w._grid_rows
        /\ _current_total_months' = w._current_total_months
        /\ _panels' = w._panels
        /\ _month_width' = w._month_width
        /\ _month_height' = w._month_height
        /\ _saved_width' = w._saved_width
        /\ _saved_height' = w._saved_height
        /\ _saved_grid_cols' = w._saved_grid_cols
        /\ _saved_grid_rows' = w._saved_grid_rows
        /\ _showing' = w._showing
        /\ _resize_after_id' = w._resize_after_id
        /\ resize_jobs' = {}
        /\ end_showing_jobs' = 0
        /\ win_state' = "withdrawn"
        /\ panels_created' = w.built
        /\ max_total' = w._current_total_months
        /\ rebuild_tick' = TRUE
        /\ _holiday_map' = w._holiday_map
        /\ _theme' = w._theme
        /\ _enabled_holidays' = w._enabled_holidays
        /\ _holiday_colors' = w._holiday_colors
        /\ _marker_colors' = w._marker_colors
        /\ _holidays_visible' = TRUE
        /\ _day_markers' = {}
        /\ sel_start' = None
        /\ sel_end' = None
        /\ _dragging' = FALSE
        /\ UNCHANGED <<arg, ret, hist, file, today>>
        /\ after_queue' = <<>>

---------------------------------------------------------------------------
(* The pure functions of calendar_logic.py, applied to every (year, month) *)
(* of the bounded range.  The window is idle in these behaviours.          *)

WindowIdle == Started(NoFile, CHOOSE td \in TodayChoices : TRUE)

GridInputs == (YearLo..YearHi) \X (1..12)

InitLogic ==
    /\ arg \in GridInputs
    /\ ret = <<>>
    /\ hist = <<>>
    /\ WindowIdle

CallMonthGrid ==
    /\ hist = <<>>
    /\ ret' = month_grid(arg[1], arg[2])
    /\ hist' = <<"month_grid">>
    /\ UNCHANGED <<arg, after_queue, winVars>>

CallIsoWeekNumbers ==
    /\ hist = <<>>
    /\ ret' = iso_week_numbers(arg[1], arg[2])
    /\ hist' = <<"iso_week_numbers">>
    /\ UNCHANGED <<arg, after_queue, winVars>>

\* prev_month / next_month may be chained: each is applied to the (year,
\* month) the call before returned
MonthSteps == {"prev_month", "next_month"}
ChainInput == IF hist = <<>> THEN arg ELSE ret
CanChain ==
    /\ Len(hist) < MaxChain
    /\ \A i \in 1..Len(hist) : hist[i] \in MonthSteps

CallPrevMonth ==
    /\ CanChain
    /\ ret' = prev_month(ChainInput[1], ChainInput[2])
    /\ hist' = Append(hist, "prev_month")
    /\ UNCHANGED <<arg, after_queue, winVars>>

CallNextMonth ==
    /\ CanChain
    /\ ret' = next_month(ChainInput[1], ChainInput[2])
    /\ hist' = Append(hist, "next_month")
    /\ UNCHANGED <<arg, after_queue, winVars>>

NextLogic ==
    \/ CallMonthGrid
    \/ CallIsoWeekNumbers
    \/ CallPrevMonth
    \/ CallNextMonth

SpecLogic == InitLogic /\ [][NextLogic]_vars

---------------------------------------------------------------------------
(* holidays_for_year applied to every year of the bounded range and to     *)
(* bounded sets of enabled keys.                                           *)

UnknownKeys == {"xx_unknown"}

\* the keys that occur in sets of more than one key
CoreKeys == {"ch_neujahr", "de_neujahr", "cn_neujahr", "ch_ostermontag",
             "de_ostermontag", "cn_spring_festival", "cn_qingming",
             "cn_national_day", "de_tag_dt_einheit", "xx_unknown"}

EnabledChoices ==
    {{k} : k \in RegistryKeys \cup UnknownKeys}
        \cup {S \in SUBSET CoreKeys : Cardinality(S) <= MaxEnabled}

\* the orders in which "for key in enabled_keys" may visit the set S
Orders(S) ==
    {f \in [1..Cardinality(S) -> S] :
        \A i, j \in 1..Cardinality(S) : i # j => f[i] # f[j]}

InitHolidays ==
    /\ arg \in (HolYearLo..HolYearHi) \X EnabledChoices
    /\ ret = <<>>
    /\ hist = <<>>
    /\ WindowIdle

CallHolidaysForYear ==
    /\ hist = <<>>
    /\ \E keys \in Orders(arg[2]) : ret' = holidays_for_year(arg[1], keys)
    /\ hist' = <<"holidays_for_year">>
    /\ UNCHANGED <<arg, after_queue, winVars>>

NextHolidays == CallHolidaysForYear

SpecHolidays == InitHolidays /\ [][NextHolidays]_vars

---------------------------------------------------------------------------
(* The calendar window: one behaviour is a run of the program, restarts    *)
(* included, from the first start without a settings file.                 *)

Init ==
    /\ arg = <<>> /\ ret = <<>> /\ hist = <<>>
    /\ \E td \in TodayChoices : Started(NoFile, td)

Next ==
    \/ \E direction \in {-1, 1} : Navigate(direction)
    \/ \E direction \in {-1, 1} : NavigatePage(direction)
    \/ \E direction \in {-1, 1} : NavigateYear(direction)
    \/ GoToday
    \/ \E size \in Sizes, is_root \in BOOLEAN :
            Configure(size[1], size[2], is_root)
    \/ \E id \in resize_jobs : HandleResize(id)
    \/ Toggle
    \/ Close
    \/ EndShowing
    \/ SettingsOkUnchanged
    \/ Restart

Spec == Init /\ [][Next]_vars

---------------------------------------------------------------------------
(* The calendar window with its pointer: the user selects days and marks   *)
(* them, in a window that is resized to the size of two months.            *)

\* the day cells the pointer is pressed on, moved to and released on
PointerDates == {<<2025, 12, 31>>, <<2026, 1, 1>>}
PointerTargets == {None} \cup {d \in PointerDates : OnDisplay(d)}

\* the day cell that is right-clicked
MarkerDates == {<<2026, 1, 1>>}

\* the sizes of the window after a resize: two that fit two months
ViewSizes ==
    {<<24 + 2 * (FrameReqWidth + 12) + extra,
       50 + (FrameReqHeight + 4) + 6>> : extra \in {6, 26}}

NextView ==
    \/ \E direction \in {-1, 1} : Navigate(direction)
    \/ \E direction \in {-1, 1} : NavigatePage(direction)
    \/ \E direction \in {-1, 1} : NavigateYear(direction)
    \/ GoToday
    \/ \E size \in ViewSizes : Configure(size[1], size[2], TRUE)
    \/ \E id \in resize_jobs : HandleResize(id)
    \/ Toggle
    \/ Close
    \/ EndShowing
    \/ SettingsOkUnchanged
    \/ Restart
    \/ \E d \in PointerTargets : OnPress(d)
    \/ \E w \in PointerTargets : OnMotion(w)
    \/ \E w \in PointerTargets : OnRelease(w)
    \/ Escape
    \/ \E d \in MarkerDates : SetMarkers(d, _marker_colors[1])
    \/ \E d \in MarkerDates : RemoveMarkers(d)
    \/ ClearMarkers
    \/ ToggleHolidays

SpecView == Init /\ [][NextView]_vars

---------------------------------------------------------------------------
(* load_settings() applied to every settings file of a bounded set: every  *)
(* kind of file, JSON values that are not objects, and objects with        *)
(* absent, well-typed and ill-typed members.  The window is idle.          *)

\* the JSON values of the members of an object in the file
StoredMembers ==
    [k \in SettingsKeys |->
        CASE k = "dark_mode" -> {JAbsent, JBool(TRUE), JInt(1)}
          [] k = "window_width" ->
                {JAbsent, JNull, JInt(400), JBool(TRUE), JStr("400")}
          [] k = "window_height" -> {JAbsent}
          [] k = "grid_cols" -> {JAbsent, JInt(2), JStr("2")}
          [] k = "grid_rows" -> {JAbsent, JInt(1)}
          [] k = "holidays" ->
                {JAbsent, JStr("ch_neujahr"),
                 JList(<<JStr("ch_neujahr"), JStr("de_neujahr")>>),
                 JList(<<JStr("ch_neujahr"), JInt(3)>>)}
          [] k = "holiday_colors" ->
                {JAbsent, JList(<<>>),
                 JDict([c \in ColorKeys |-> JStr("#123456")])}
          [] k = "marker_colors" -> {JAbsent}]

\* the JSON values at the top level of a file that holds no object
TopLevelValues ==
    {JNull, JBool(TRUE), JInt(5), JStr("x"), JStr("grid_cols"), JList(<<>>),
     JList(<<JInt(1)>>), JList(<<JStr("dark_mode")>>)}

SettingsFiles ==
    {NoFile, Unreadable, Undecodable, InvalidJson}
        \cup {JsonValue(v) : v \in TopLevelValues}
        \cup {JsonObject([k \in SettingsKeys |->
                            CASE k = "dark_mode" -> dm
                              [] k = "window_width" -> ww
                              [] k = "grid_cols" -> gc
                              [] k = "grid_rows" -> gr
                              [] k = "holidays" -> ho
                              [] k = "holiday_colors" -> hc
                              [] OTHER -> JAbsent]) :
                dm \in StoredMembers["dark_mode"],
                ww \in StoredMembers["window_width"],
                gc \in StoredMembers["grid_cols"],
                gr \in StoredMembers["grid_rows"],
                ho \in StoredMembers["holidays"],
                hc \in StoredMembers["holiday_colors"]}

InitSettings ==
    /\ arg \in SettingsFiles
    /\ ret = <<>>
    /\ hist = <<>>
    /\ WindowIdle

\* load_settings() on the file arg: it raises or returns a dict
CallLoadSettings ==
    /\ hist = <<>>
    /\ ret' = IF load_settings_raises(arg) # ""
              THEN <<"raise", load_settings_raises(arg)>>
              ELSE <<"return", load_settings(arg)>>
    /\ hist' = <<"load_settings">>
    /\ UNCHANGED <<arg, after_queue, winVars>>

NextSettings == CallLoadSettings

SpecSettings == InitSettings /\ [][NextSettings]_vars

---------------------------------------------------------------------------
(* calendar_window.py: the colours of a day cell                           *)

\* THEMES: the colours the day cells use
THEMES ==
    [light |-> [accent |-> "#0078D4", sel_bg |-> "#B3D7F2",
                grid_bg |-> "white", weekend_fg |-> "#CC0000",
                day_fg |-> "black", today_fg |-> "white",
                sel_fg |-> "black"],
     dark  |-> [accent |-> "#4DA6FF", sel_bg |-> "#2A4A6B",
                grid_bg |-> "#1E1E1E", weekend_fg |-> "#FF6B6B",
                day_fg |-> "#E0E0E0", today_fg |-> "white",
                sel_fg |-> "white"]]

\* tc(key) with the active theme `theme`
tc(theme, key) == THEMES[theme][key]

\* _day_colors(is_today, is_weekend, in_sel, holiday_colors) with the active
\* theme `theme`: <<background colours, text colour>>.  None and the empty
\* list are both false, and both are <<>> here
_day_colors_selfirst(theme, is_today, is_weekend, in_sel, holiday_colors) ==
    IF in_sel THEN <<(<<tc(theme, "sel_bg")>>), tc(theme, "sel_fg")>>
    ELSE IF is_today THEN <<(<<tc(theme, "accent")>>), tc(theme, "today_fg")>>
    ELSE IF holiday_colors # <<>> THEN <<holiday_colors, "white">>
    ELSE IF is_weekend
         THEN <<(<<tc(theme, "grid_bg")>>), tc(theme, "weekend_fg")>>
    ELSE <<(<<tc(theme, "grid_bg")>>), tc(theme, "day_fg")>>
_day_colors(theme, is_today, is_weekend, in_sel, holiday_colors) ==
    IF is_today THEN <<(<<tc(theme, "accent")>>), tc(theme, "today_fg")>>
    ELSE IF in_sel THEN <<(<<tc(theme, "sel_bg")>>), tc(theme, "sel_fg")>>
    ELSE IF holiday_colors # <<>> THEN <<holiday_colors, "white">>
    ELSE IF is_weekend
         THEN <<(<<tc(theme, "grid_bg")>>), tc(theme, "weekend_fg")>>
    ELSE <<(<<tc(theme, "grid_bg")>>), tc(theme, "day_fg")>>

\* _day_colors applied to every combination of its flags, in both themes,
\* for a day without a holiday colour, with one and with two.  The window is
\* idle.
ColorInputs ==
    [theme : {"light", "dark"}, is_today : BOOLEAN, is_weekend : BOOLEAN,
     in_sel : BOOLEAN,
     holiday_colors : {<<>>, <<"#FF0000">>, <<"#4CAF50">>,
                       <<"#FF0000", "#FFD700">>}]

InitColors ==
    /\ arg \in ColorInputs
    /\ ret = <<>>
    /\ hist = <<>>
    /\ WindowIdle

CallDayColors ==
    /\ hist = <<>>
    /\ ret' = _day_colors(arg.theme, arg.is_today, arg.is_weekend,
                          arg.in_sel, arg.holiday_colors)
    /\ hist' = <<"_day_colors">>
    /\ UNCHANGED <<arg, after_queue, winVars>>

NextColors == CallDayColors

SpecColors == InitColors /\ [][NextColors]_vars

---------------------------------------------------------------------------
(* calendar_window.py: the footer, which sums the selection up             *)

\* "%02d" % n
Pad2(n) == IF n < 10 THEN "0" \o str(n) ELSE str(n)

\* d.strftime('%d.%m') and d.strftime('%d.%m.%Y') for a year of four digits
DayMonth(d) == Pad2(d[3]) \o "." \o Pad2(d[2])
DayMonthYear(d) == DayMonth(d) \o "." \o str(d[1])

\* f"{n} {unit}{'s' if n != 1 else ''}"
Plural(n, unit) == str(n) \o " " \o unit \o (IF n # 1 THEN "s" ELSE "")

\* ', '.join(parts)
RECURSIVE Join(_)
Join(parts) ==
    IF parts = <<>> THEN ""
    ELSE IF Len(parts) = 1 THEN parts[1]
    ELSE parts[1] \o ", " \o Join(Tail(parts))

\* _footer_text() with the selection (start, end) on the day today_date
_footer_text_noinclusive(start, end, today_date) ==
    LET today_str == "Today: " \o DayMonthYear(today_date)
        r == _sel_range(start, end)
        sel_lo == r[1]
        sel_hi == r[2]
    IN  IF sel_lo = None \/ sel_lo = sel_hi THEN today_str
        ELSE LET total_days == Ymd2Ord(sel_hi[1], sel_hi[2], sel_hi[3])
                                - Ymd2Ord(sel_lo[1], sel_lo[2], sel_lo[3])
                 full_weeks == total_days \div 7
                 rem_days == total_days % 7
                 parts ==
                    (IF full_weeks # 0 THEN <<Plural(full_weeks, "week")>>
                     ELSE <<>>)
                        \o (IF rem_days # 0 THEN <<Plural(rem_days, "day")>>
                            ELSE <<>>)
                 range_str == DayMonth(sel_lo) \o " → " \o DayMonth(sel_hi)
             IN  range_str \o ":  " \o str(total_days) \o " days  ("
                    \o Join(parts) \o ")     " \o today_str
_footer_text(start, end, today_date) ==
    LET today_str == "Today: " \o DayMonthYear(today_date)
        r == _sel_range(start, end)
        sel_lo == r[1]
        sel_hi == r[2]
    IN  IF sel_lo = None \/ sel_lo = sel_hi THEN today_str
        ELSE LET total_days == Ymd2Ord(sel_hi[1], sel_hi[2], sel_hi[3])
                                - Ymd2Ord(sel_lo[1], sel_lo[2], sel_lo[3]) + 1
                 full_weeks == total_days \div 7
                 rem_days == total_days % 7
                 parts ==
                    (IF full_weeks # 0 THEN <<Plural(full_weeks, "week")>>
                     ELSE <<>>)
                        \o (IF rem_days # 0 THEN <<Plural(rem_days, "day")>>
                            ELSE <<>>)
                 range_str == DayMonth(sel_lo) \o " → " \o DayMonth(sel_hi)
             IN  range_str \o ":  " \o str(total_days) \o " days  ("
                    \o Join(parts) \o ")     " \o today_str

\* _footer_text applied to no selection and to the selections that start on
\* 1 or on 25 January 2025 and end up to MaxSpan days before or after
MaxSpan == 15
FooterToday == <<2025, 1, 9>>
FooterStarts == {<<2025, 1, 1>>, <<2025, 1, 25>>}
FooterInputs ==
    {<<None, None>>}
        \cup {<<s, AddDays(s, n)>> : s \in FooterStarts, n \in (-MaxSpan)..MaxSpan}

InitFooter ==
    /\ arg \in FooterInputs
    /\ ret = <<>>
    /\ hist = <<>>
    /\ WindowIdle

CallFooterText ==
    /\ hist = <<>>
    /\ ret' = _footer_text(arg[1], arg[2], FooterToday)
    /\ hist' = <<"_footer_text">>
    /\ UNCHANGED <<arg, after_queue, winVars>>

NextFooter == CallFooterText

SpecFooter == InitFooter /\ [][NextFooter]_vars

---------------------------------------------------------------------------
(* main.py: the tray thread asks for actions, the UI thread's event loop   *)
(* runs them between the events of the window.                             *)

\* how many root.after(0, ...) callbacks may wait in the event loop
MaxQueue == 2

\* cal_win.root.after(0, callback), called on the tray thread
After0(callback) ==
    /\ Len(after_queue) < MaxQueue
    /\ after_queue' = Append(after_queue, callback)
    /\ UNCHANGED <<arg, ret, hist, winVars>>

\* the callbacks main() hands to create_tray(): the tray's menu items "Show
\* Calendar", "Exit", "Settings" and "About"
on_show_direct == Toggle
on_show == After0("toggle")
on_exit == After0("_quit")
on_settings == After0("open_settings")
on_about == After0("open_about")

\* The event loop runs the callback that waits longest.  open_settings() and
\* open_about() build a dialog and leave the window as it is; _quit() ends
\* the program with the callbacks that wait, and the program is started
\* again.
RunAfter ==
    /\ after_queue # <<>>
    /\ LET callback == Head(after_queue)
       IN  IF callback = "toggle"
           THEN toggle /\ after_queue' = Tail(after_queue)
           ELSE IF callback = "_quit"
           THEN Restart
           ELSE /\ after_queue' = Tail(after_queue)
                /\ UNCHANGED <<arg, ret, hist, winVars>>

\* the size the window is resized to: room for two months
TraySizes == {<<24 + 2 * (FrameReqWidth + 12) + 6, 50 + (FrameReqHeight + 4) + 6>>}

\* the steps of the tray thread, and those of the UI thread: the callbacks
\* and the events of the window
NextTray ==
    \/ on_show
    \/ on_exit
    \/ on_settings
    \/ on_about
    \/ RunAfter
    \/ Navigate(-1)
    \/ \E size \in TraySizes : Configure(size[1], size[2], TRUE)
    \/ \E id \in resize_jobs : HandleResize(id)
    \/ Close
    \/ EndShowing
    \/ \E d \in PointerTargets : OnPress(d)

SpecTray == Init /\ [][NextTray]_vars

---------------------------------------------------------------------------
(* The calendar window started on a settings file an earlier run, another  *)
(* version of the program or an editor has left: the grid and the window   *)
(* size may be absent from it or null.                                     *)

\* the JSON values of "grid_cols" and of "grid_rows" in the file
StoredCols == {JAbsent, JNull, JInt(2)}
StoredRows == {JAbsent, JNull, JInt(1), JInt(2)}
\* the JSON values of <<"window_width", "window_height">> in the file
StoredSizes == {<<JAbsent, JAbsent>>, <<JInt(230), JInt(206)>>}

\* a settings file with the grid (c, r) and the window size wh
StoreFile(c, r, wh) ==
    JsonObject([k \in SettingsKeys |->
        CASE k = "grid_cols" -> c
          [] k = "grid_rows" -> r
          [] k = "window_width" -> wh[1]
          [] k = "window_height" -> wh[2]
          [] OTHER -> JAbsent])

StoreFiles ==
    {NoFile} \cup {StoreFile(c, r, wh) :
                    c \in StoredCols, r \in StoredRows, wh \in StoredSizes}

\* the sizes the window is resized to: room for one month, and for two
StoreSizes == {<<24 + c * (FrameReqWidth + 12) + 6,
                 50 + (FrameReqHeight + 4) + 6>> : c \in 1..2}

\* the palettes the user confirms in the settings dialog: the default, and
\* one with the first colour picked anew
CustomMarkerColors == <<"#000000", "#9B59B6", "#1ABC9C", "#F39C12">>
MarkerPalettes == {DefaultMarkerColors, CustomMarkerColors}

InitStore ==
    /\ arg = <<>> /\ ret = <<>> /\ hist = <<>>
    /\ \E f \in StoreFiles, td \in TodayChoices : Started(f, td)

NextStore ==
    \/ \E direction \in {-1, 1} : Navigate(direction)
    \/ GoToday
    \/ \E size \in StoreSizes : Configure(size[1], size[2], TRUE)
    \/ \E id \in resize_jobs : HandleResize(id)
    \/ Toggle
    \/ Close
    \/ EndShowing
    \/ \E new_dark \in BOOLEAN, marker_vals \in MarkerPalettes :
            SettingsOk(new_dark, KeyList(_enabled_holidays, 1),
                       _holiday_colors, marker_vals)
    \/ Restart

SpecStore == InitStore /\ [][NextStore]_vars

---------------------------------------------------------------------------
(* The window left at the size show() gives it: show() clears the geometry *)
(* and _position_window() sets the requested size of the content.          *)

\* The heights of the navigation row and the footer together, with their
\* pady: the fonts of the platform decide them, the code does not.
NavFooterHeights == {48, 60}

\* winfo_reqwidth() of the window with c columns: the months frame holds c
\* panels of _month_width pixels each (frame and padx), _outer is packed
\* with padx=6
ReqWidth(c) == c * _month_width + 12
\* winfo_reqheight() of the window with r rows: _outer is packed with pady=4
ReqHeight(r, chrome) == chrome + r * _month_height + 8

\* A <Configure> event of the root window that reports the size show() gave
\* it (the window was moved, or the window manager repeats the size).  The
\* size is known while no size is recorded or the recorded one is this one.
ConfigureShown ==
    /\ _saved_width = None \/ _saved_width = Some(ReqWidth(_grid_cols))
    /\ \E chrome \in NavFooterHeights :
            Configure(ReqWidth(_grid_cols), ReqHeight(_grid_rows, chrome), TRUE)

NextFit ==
    \/ ConfigureShown
    \/ \E id \in resize_jobs : HandleResize(id)
    \/ Toggle
    \/ Close
    \/ EndShowing
    \/ Restart

SpecFit == InitStore /\ [][NextFit]_vars

---------------------------------------------------------------------------
(* The window started on a settings file whose grid holds any values that  *)
(* load_settings() accepts: every JSON integer, and every JSON bool.       *)

\* the JSON values of "grid_cols" and of "grid_rows" in the file
RestoredCols == {JInt(-1), JInt(0), JInt(2), JBool(TRUE)}
RestoredRows == {JInt(0), JInt(1)}

RestoreFiles ==
    {StoreFile(c, r, <<JAbsent, JAbsent>>) :
        c \in RestoredCols, r \in RestoredRows}

InitRestore ==
    /\ arg = <<>> /\ ret = <<>> /\ hist = <<>>
    /\ \E f \in RestoreFiles, td \in TodayChoices : Started(f, td)

NextRestore ==
    \/ \E direction \in {-1, 1} : Navigate(direction)
    \/ \E size \in StoreSizes : Configure(size[1], size[2], TRUE)
    \/ \E id \in resize_jobs : HandleResize(id)
    \/ Toggle
    \/ Close
    \/ EndShowing
    \/ Restart

SpecRestore == InitRestore /\ [][NextRestore]_vars

---------------------------------------------------------------------------
(* What the day cells show: _fill_panel() during a rebuild, and            *)
(* _update_highlight() after a change of the selection, the markers or the *)
(* holiday switch.  The window runs with holidays enabled.                 *)

\* date.today(): the variable `today` holds its year and month
TodayDate == <<today[1], today[2], 15>>

\* self._holiday_colors.get(country, "#888888")
HolidayColorGet(country) ==
    IF country \in DOMAIN _holiday_colors
    THEN (IF _holiday_colors[country][1] = "str"
          THEN _holiday_colors[country][2] ELSE _holiday_colors[country])
    ELSE "#888888"

\* for _, country in entries: if country not in seen: ... colors.append(...)
RECURSIVE CountryColors(_, _, _)
CountryColors(entries, i, seen) ==
    IF i > Len(entries) THEN <<>>
    ELSE LET country == entries[i][2]
         IN  IF country \in seen THEN CountryColors(entries, i + 1, seen)
             ELSE <<HolidayColorGet(country)>>
                    \o CountryColors(entries, i + 1, seen \cup {country})

\* _holiday_color_for_date(d), the map being hmap; None and [] are <<>>
HolidayColorsIn(hmap, d) ==
    IF ~_holidays_visible THEN None
    ELSE IF d \notin DOMAIN hmap THEN None
    ELSE CountryColors(hmap[d], 1, {})
_holiday_color_for_date(d) == HolidayColorsIn(_holiday_map, d)

\* self._day_markers.get(d): None, or <<colour>>
DayMarkerGet(d) ==
    IF d \in Marked
    THEN Some((CHOOSE it \in _day_markers : it[1] = d)[2])
    ELSE None

\* _draw_cell(cell, text, bg_colors, fg, font, marker_color): the cell's
\* background, its stripes, its marker circle, and its text with the
\* outline, the colour and the font
_draw_cell(text, bg_colors, fg, font, marker_color) ==
    [bg      |-> IF bg_colors # <<>> THEN bg_colors[1]
                 ELSE tc(_theme, "grid_bg"),
     stripes |-> IF Len(bg_colors) <= 1 THEN <<>> ELSE bg_colors,
     marker  |-> marker_color,
     text    |-> text,
     outline |-> Len(bg_colors) > 1,
     fg      |-> IF marker_color # None THEN "white" ELSE fg,
     font    |-> font]

\* the cell of the date d drawn with the weekend flag is_weekend and the
\* holiday colours h_colors: the body of the loops of _fill_panel() and of
\* _update_highlight()
DayCell(d, is_weekend, h_colors) ==
    LET sel == _sel_range(sel_start, sel_end)
        is_today == d = TodayDate
        in_sel == sel[1] # None /\ DateLE(sel[1], d) /\ DateLE(d, sel[2])
        colors == _day_colors(_theme, is_today, is_weekend, in_sel, h_colors)
    IN  _draw_cell(d[3], colors[1], colors[2],
                   IF is_today THEN "font_bold" ELSE "font_normal",
                   DayMarkerGet(d))

\* _fill_panel(panel, year, month, ...): the day cells it draws, as pairs
\* <<date, cell>>; the cell in column c of the grid is a weekend when c >= 5
_fill_panel(year, month, hmap) ==
    LET grid == month_grid(year, month)
    IN  {<<(<<year, month, grid[r][c + 1][1]>>),
           DayCell(<<year, month, grid[r][c + 1][1]>>, c >= 5,
                   HolidayColorsIn(hmap, <<year, month, grid[r][c + 1][1]>>))>> :
            <<r, c>> \in {rc \in (1..Len(grid)) \X (0..6) :
                            grid[rc[1]][rc[2] + 1] # None}}

\* the day cells after a run of _rebuild_months() in the present state
RebuildCells ==
    LET r == RebuildMonths(_panels, _month_width, _month_height, _grid_cols,
                           _grid_rows, center_year, center_month)
        hmap == HolidayMap(r.visible_years, _enabled_holidays)
    IN  UNION {_fill_panel(r._panels[i].ym[1], r._panels[i].ym[2], hmap) :
                i \in {i \in 1..Len(r._panels) : r._panels[i].pos # None}}

\* the day cells after a run of _update_highlight() in the present state:
\* it draws the cells of _date_widgets, a weekend being d.weekday() >= 5
_update_highlight_nomarker ==
    {<<d, [DayCell(d, Weekday(d[1], d[2], d[3]) >= 5,
                   _holiday_color_for_date(d))
            EXCEPT !.marker = None]>> : d \in DisplayedDates}
_update_highlight ==
    {<<d, DayCell(d, Weekday(d[1], d[2], d[3]) >= 5,
                  _holiday_color_for_date(d))>> : d \in DisplayedDates}

\* the "holidays" list of the settings file, and the keys checked in the
\* settings dialog
RenderEnabled ==
    {<<"ch_neujahr", "de_neujahr">>, <<"ch_berchtoldstag", "ch_weihnachten">>}

RenderFiles ==
    {JsonObject([k \in SettingsKeys |->
        IF k = "holidays" THEN JStrList(keys) ELSE JAbsent]) :
            keys \in RenderEnabled}

\* the day cells the pointer is pressed on, moved to and released on
RenderTargets == {d \in {<<2026, 1, 1>>, <<2026, 1, 3>>} : OnDisplay(d)}

InitRender ==
    /\ arg = <<>> /\ ret = <<>> /\ hist = <<>>
    /\ \E f \in RenderFiles, td \in TodayChoices : Started(f, td)

NextRender ==
    \/ \E direction \in {-1, 1} : Navigate(direction)
    \/ Toggle
    \/ EndShowing
    \/ \E new_dark \in BOOLEAN, new_enabled \in RenderEnabled :
            SettingsOk(new_dark, new_enabled, _holiday_colors, _marker_colors)
    \/ Restart
    \/ \E d \in RenderTargets : OnPress(d)
    \/ \E w \in RenderTargets : OnMotion(w)
    \/ \E w \in RenderTargets : OnRelease(w)
    \/ Escape
    \/ \E d \in MarkerDates : SetMarkers(d, _marker_colors[1])
    \/ ClearMarkers
    \/ ToggleHolidays

SpecRender == InitRender /\ [][NextRender]_vars

---------------------------------------------------------------------------
(* Properties of the calendar functions (checked under SpecLogic).         *)

\* the (row, column) places of a grid that hold a day
NonEmptyCells(grid) ==
    {rc \in (1..Len(grid)) \X (1..7) :
        rc[2] <= Len(grid[rc[1]]) /\ grid[rc[1]][rc[2]] # None}

\* the number of days of a month, by the calendar rule
MonthLength(y, m) ==
    CASE m \in {1, 3, 5, 7, 8, 10, 12} -> 31
      [] m \in {4, 6, 9, 11} -> 30
      [] m = 2 -> IF (y % 4 = 0 /\ y % 100 # 0) \/ y % 400 = 0 THEN 29 ELSE 28

\* C1: for every year and month, month_grid returns exactly 6 rows of exactly
\* 7 cells each, and the number of non-empty cells is the number of days of
\* that month (28 to 31, leap years included).
C1_GridShape ==
    hist = <<"month_grid">> =>
        /\ Len(ret) = 6
        /\ \A r \in 1..Len(ret) : Len(ret[r]) = 7
        /\ Cardinality(NonEmptyCells(ret)) = MonthLength(arg[1], arg[2])
        /\ Cardinality(NonEmptyCells(ret)) \in 28..31

\* a February of a leap year has been laid out: 29 days in 6 rows
C1_Witness ==
    /\ hist = <<"month_grid">>
    /\ arg = <<2024, 2>>
    /\ Len(ret) = 6
    /\ Cardinality(NonEmptyCells(ret)) = 29

\* C2: every non-empty cell holding day d sits in the column of the
\* Monday-based weekday of date(year, month, d), so day 1 is in column
\* isoWeekday(day 1) - 1, and the non-empty cells read row by row are
\* 1, 2, ..., N without gap or repeat.
C2_GridColumns ==
    hist = <<"month_grid">> =>
        LET cells == NonEmptyCells(ret)
            flat(rc) == (rc[1] - 1) * 7 + rc[2]
        IN  /\ \A rc \in cells :
                LET d == ret[rc[1]][rc[2]][1]
                IN  /\ rc[2] - 1 = Weekday(arg[1], arg[2], d)
                    /\ d = Cardinality({o \in cells : flat(o) <= flat(rc)})
            /\ \E rc \in cells :
                /\ ret[rc[1]][rc[2]] = Some(1)
                /\ rc[1] = 1
                /\ rc[2] - 1 = Weekday(arg[1], arg[2], 1)

\* June 2025 starts on a Sunday: day 1 is in the last column of the first row
C2_Witness ==
    /\ hist = <<"month_grid">>
    /\ arg = <<2025, 6>>
    /\ ret[1][7] = Some(1)
    /\ ret[2][1] = Some(2)

\* the ISO-8601 week of a date: the number of the week, counted in the year
\* of its Thursday, that the Thursday of the date's week falls in
IsoWeekByThursday(y, m, d) ==
    LET ord == Ymd2Ord(y, m, d)
        thu == ord - Weekday(y, m, d) + 3
        ty  == IF thu < Ymd2Ord(y, 1, 1) THEN y - 1
               ELSE IF thu >= Ymd2Ord(y + 1, 1, 1) THEN y + 1 ELSE y
    IN  ((thu - Ymd2Ord(ty, 1, 1)) \div 7) + 1

\* the decimal numerals of the week numbers 1..53
Numerals == <<"1", "2", "3", "4", "5", "6", "7", "8", "9", "10",
              "11", "12", "13", "14", "15", "16", "17", "18", "19", "20",
              "21", "22", "23", "24", "25", "26", "27", "28", "29", "30",
              "31", "32", "33", "34", "35", "36", "37", "38", "39", "40",
              "41", "42", "43", "44", "45", "46", "47", "48", "49", "50",
              "51", "52", "53">>

\* C3: iso_week_numbers returns 6 strings, one per grid row: the empty string
\* exactly for the rows of month_grid without a day, and otherwise the ISO
\* week number of the first day of the row (week 52/53 of the previous ISO
\* year may occur in the first row of January).
C3_WeekNumbers ==
    hist = <<"iso_week_numbers">> =>
        LET grid == month_grid(arg[1], arg[2])
        IN  /\ Len(ret) = 6
            /\ \A r \in 1..Len(ret) :
                LET days == {grid[r][c][1] : c \in {c \in 1..7 : grid[r][c] # None}}
                IN  IF days = {} THEN ret[r] = ""
                    ELSE LET first == CHOOSE d \in days : \A e \in days : d <= e
                         IN  /\ ret[r] # ""
                             /\ ret[r] = Numerals[IsoWeekByThursday(arg[1], arg[2], first)]

\* January 2021 starts in week 53 of 2020 and leaves the sixth row empty
C3_Witness ==
    /\ hist = <<"iso_week_numbers">>
    /\ arg = <<2021, 1>>
    /\ ret[1] = "53"
    /\ ret[2] = "1"
    /\ ret[6] = ""

\* the number of months from year 0 to (year, month)
MonthsSinceZero(ym) == ym[1] * 12 + (ym[2] - 1)

\* C4: prev_month(next_month(y, m)) = (y, m) and next_month(prev_month(y, m))
\* = (y, m); next_month of December is January of y + 1, prev_month of
\* January is December of y - 1, and the returned month is always in 1..12.
C4_MonthRoundTrip ==
    (hist # <<>> /\ \A i \in 1..Len(hist) : hist[i] \in MonthSteps) =>
        LET ups   == Cardinality({i \in 1..Len(hist) : hist[i] = "next_month"})
            downs == Cardinality({i \in 1..Len(hist) : hist[i] = "prev_month"})
        IN  /\ ret[2] \in 1..12
            /\ MonthsSinceZero(ret) = MonthsSinceZero(arg) + ups - downs
            /\ hist = <<"next_month", "prev_month">> => ret = arg
            /\ hist = <<"prev_month", "next_month">> => ret = arg
            /\ (hist = <<"next_month">> /\ arg[2] = 12) => ret = <<arg[1] + 1, 1>>
            /\ (hist = <<"prev_month">> /\ arg[2] = 1) => ret = <<arg[1] - 1, 12>>

\* next_month carried December 2024 into 2025 and prev_month brought it back
C4_Witness ==
    /\ hist = <<"next_month", "prev_month">>
    /\ arg = <<2024, 12>>
    /\ ret = <<2024, 12>>

---------------------------------------------------------------------------
(* Properties of the holiday query (checked under SpecHolidays).           *)

\* Easter Sunday by the algorithm the specification states
StatedEaster(year) ==
    LET a == year % 19
        b == year \div 100
        c == year % 100
        d == b \div 4
        e == b % 4
        f == (b + 8) \div 25
        g == (b - f + 1) \div 3
        h == (19 * a + b - d - g + 15) % 30
        i == c \div 4
        k == c % 4
        l == (32 + 2 * e + 2 * i - h - k) % 7
        m == (a + 11 * h + 22 * l) \div 451
        n == h + l - 7 * m + 114
    IN  <<year, n \div 31, (n % 31) + 1>>

\* the Easter-relative keys and their day offsets
EasterOffset ==
    [k \in {"ch_karfreitag", "de_karfreitag"} |-> -2]
        @@ [k \in {"ch_ostermontag", "de_ostermontag"} |-> 1]
        @@ [k \in {"ch_auffahrt", "de_christi_himmelfahrt"} |-> 39]
        @@ [k \in {"ch_pfingstmontag", "de_pfingstmontag"} |-> 49]

IsDate(dt) ==
    /\ dt[2] \in 1..12
    /\ dt[3] >= 1
    /\ dt[3] <= MonthLength(dt[1], dt[2])

Called == hist = <<"holidays_for_year">>

\* C5: an enabled Easter-relative key yields exactly one date, Easter Sunday
\* of the year by the stated algorithm plus the key's offset; Easter 2025 is
\* April 20 and holidays_for_year(2025, {ch_ostermontag}) has the single date
\* April 21, 2025.
C5_EasterRelative ==
    (Called /\ \E k \in DOMAIN EasterOffset : arg[2] = {k}) =>
        LET k == CHOOSE k \in DOMAIN EasterOffset : arg[2] = {k}
            easter == StatedEaster(arg[1])
        IN  /\ Cardinality(DOMAIN ret) = 1
            /\ \A dt \in DOMAIN ret :
                /\ IsDate(dt)
                /\ Ymd2Ord(dt[1], dt[2], dt[3])
                     = Ymd2Ord(easter[1], easter[2], easter[3]) + EasterOffset[k]
                /\ Weekday(dt[1], dt[2], dt[3]) = (6 + EasterOffset[k]) % 7
            /\ arg[1] = 2025 => easter = <<2025, 4, 20>>
            /\ (arg[1] = 2025 /\ k = "ch_ostermontag") =>
                    DOMAIN ret = {<<2025, 4, 21>>}

\* the query of the specification's example has been made
C5_Witness ==
    /\ Called
    /\ arg = <<2025, {"ch_ostermontag"}>>
    /\ DOMAIN ret = {<<2025, 4, 21>>}
    /\ ret[<<2025, 4, 21>>] = << <<"Ostermontag", "CH">> >>

\* the year-indexed holidays: their table and their number of days
TableKeys ==
    [cn_spring_festival |-> [table |-> _SPRING_FESTIVAL, n |-> 3],
     cn_qingming        |-> [table |-> _QINGMING, n |-> 1],
     cn_dragon_boat     |-> [table |-> _DRAGON_BOAT, n |-> 1],
     cn_mid_autumn      |-> [table |-> _MID_AUTUMN, n |-> 1]]

\* C6: a year-indexed table holiday yields exactly the N consecutive dates
\* starting at the table's entry when the year is in the table (2024..2036)
\* and no date otherwise: 2025 gives 2025-01-29, 2025-01-30, 2025-01-31 for
\* cn_spring_festival, and 2040 gives nothing.
C6_TableHolidays ==
    (Called /\ \E k \in DOMAIN TableKeys : arg[2] = {k}) =>
        LET k == CHOOSE k \in DOMAIN TableKeys : arg[2] = {k}
            t == TableKeys[k]
        IN  /\ IF arg[1] \in 2024..2036
               THEN LET s == Ymd2Ord(arg[1], t.table[arg[1]][1], t.table[arg[1]][2])
                    IN  /\ Cardinality(DOMAIN ret) = t.n
                        /\ \A dt \in DOMAIN ret : IsDate(dt)
                        /\ {Ymd2Ord(dt[1], dt[2], dt[3]) : dt \in DOMAIN ret}
                             = s..(s + t.n - 1)
               ELSE DOMAIN ret = {}
            /\ (arg[1] = 2025 /\ k = "cn_spring_festival") =>
                    DOMAIN ret = {<<2025, 1, 29>>, <<2025, 1, 30>>, <<2025, 1, 31>>}
            /\ (arg[1] = 2040 /\ k = "cn_spring_festival") => DOMAIN ret = {}

\* the Spring Festival of 2033 starts on January 31 and runs into February
C6_Witness ==
    /\ Called
    /\ arg = <<2033, {"cn_spring_festival"}>>
    /\ DOMAIN ret = {<<2033, 1, 31>>, <<2033, 2, 1>>, <<2033, 2, 2>>}

\* the number of times x occurs in the list seq
Count(seq, x) == Cardinality({i \in 1..Len(seq) : seq[i] = x})

\* two results have the same dates and, per date, the same entries
SameEntries(r1, r2) ==
    /\ DOMAIN r1 = DOMAIN r2
    /\ \A dt \in DOMAIN r1 :
        /\ Len(r1[dt]) = Len(r2[dt])
        /\ \A i \in 1..Len(r1[dt]) : Count(r1[dt], r1[dt][i]) = Count(r2[dt], r1[dt][i])

\* C7: keys that are not in the registry are silently ignored: the result has
\* the same dates and the same (name, country) entries per date as the result
\* for the enabled keys restricted to the registry's keys.
C7_UnknownKeysIgnored ==
    Called =>
        LET known == arg[2] \cap RegistryKeys
            keys  == CHOOSE f \in Orders(known) : TRUE
        IN  SameEntries(ret, holidays_for_year(arg[1], keys))

\* an unknown key was enabled together with two holidays of the registry
C7_Witness ==
    /\ Called
    /\ arg = <<2025, {"xx_unknown", "ch_ostermontag", "cn_national_day"}>>
    /\ Cardinality(DOMAIN ret) = 4

\* the dates the generator of registry entry h yields in a year
EntryDates(h, year) ==
    LET dates == dates_fn(h[4], year) IN {dates[i] : i \in 1..Len(dates)}

\* C8: holidays_for_year maps a date to exactly one (name, country) entry for
\* each enabled registry key whose generator yields that date in that year,
\* and contains no other date; a date shared by holidays of several countries
\* carries all of them.
C8_HolidayMap ==
    Called =>
        LET enabled == {i \in 1..Len(HOLIDAYS) : HOLIDAYS[i][1] \in arg[2]}
            yielding(dt) == {i \in enabled : dt \in EntryDates(HOLIDAYS[i], arg[1])}
        IN  /\ DOMAIN ret = UNION {EntryDates(HOLIDAYS[i], arg[1]) : i \in enabled}
            /\ \A dt \in DOMAIN ret :
                /\ Len(ret[dt]) = Cardinality(yielding(dt))
                /\ \A i \in yielding(dt) :
                    Count(ret[dt], <<HOLIDAYS[i][2], HOLIDAYS[i][3]>>) = 1

\* New Year's Day 2025 carries the holidays of all three countries
C8_Witness ==
    /\ Called
    /\ arg = <<2025, {"ch_neujahr", "de_neujahr", "cn_neujahr"}>>
    /\ DOMAIN ret = {<<2025, 1, 1>>}
    /\ {ret[<<2025, 1, 1>>][i] : i \in 1..3}
         = {<<"Neujahr", "CH">>, <<"Neujahr", "DE">>, <<"New Year's Day", "CN">>}

---------------------------------------------------------------------------
(* Properties of the month grid of the window (checked under Spec).        *)

\* the pool slots that are placed in the grid
Shown == {i \in 1..Len(_panels) : _panels[i].pos # None}

\* C9: after a rebuild with columns x rows, the displayed month list has
\* exactly columns*rows entries, the entries are consecutive calendar months,
\* they fill the panel slots left to right and top to bottom, and the center
\* month is at index (columns*rows - 1) div 2 of the list.
C9_MonthList ==
    LET total == _grid_cols * _grid_rows
    IN  /\ _current_total_months = total
        /\ Shown = 1..total
        /\ \A i \in Shown :
            /\ _panels[i].pos = <<(i - 1) \div _grid_cols, (i - 1) % _grid_cols>>
            /\ _panels[i].pos[1] \in 0..(_grid_rows - 1)
            /\ _panels[i].ym[2] \in 1..12
            /\ (i + 1) \in Shown =>
                 MonthsSinceZero(_panels[i + 1].ym) = MonthsSinceZero(_panels[i].ym) + 1
        /\ ((total - 1) \div 2) + 1 \in Shown
        /\ _panels[((total - 1) \div 2) + 1].ym = <<center_year, center_month>>

\* a 2 x 2 grid centered on a January: the list starts in the previous year
C9_Witness ==
    /\ win_state = "normal"
    /\ _grid_cols = 2
    /\ _grid_rows = 2
    /\ center_month = 1
    /\ _panels[1].ym = <<center_year - 1, 12>>
    /\ _panels[2].ym = <<center_year, 1>>
    /\ _panels[4].pos = <<1, 1>>

\* C10: while the program runs the panel pool never gets shorter; its length
\* is the largest columns*rows displayed so far, no panel is constructed in a
\* rebuild whose columns*rows is at most the pool's length, and the slots
\* beyond columns*rows stay in the pool, hidden.
C10_PanelPool ==
    /\ [](/\ Len(_panels) = max_total
          /\ panels_created = Len(_panels)
          /\ _current_total_months <= Len(_panels)
          /\ \A i \in 1..Len(_panels) :
                i > _current_total_months => _panels[i].pos = None)
    /\ [][~fresh' =>
            /\ Len(_panels') >= Len(_panels)
            /\ Len(_panels') = Max(Len(_panels), _current_total_months')
            /\ _current_total_months' <= Len(_panels) =>
                 panels_created' = panels_created]_vars

\* the grid was shrunk from four months to one: three slots are hidden
C10_Witness ==
    /\ ~fresh
    /\ Len(_panels) = 4
    /\ _current_total_months = 1
    /\ panels_created = 4
    /\ \A i \in 2..4 : _panels[i].pos = None

---------------------------------------------------------------------------
(* Properties of auto-fit, debounce and persistence (checked under Spec).  *)

\* the debounce timer fires and _handle_resize() runs
ResizeRuns == \E id \in resize_jobs : HandleResize(id)

\* the columns and rows auto-fit computes with the margins 24 and 50
AutoFitFormula ==
    ResizeRuns =>
        /\ _grid_cols' = Max(1, (_saved_width[1] - 24) \div _month_width)
        /\ _grid_rows' = Max(1, (_saved_height[1] - 50) \div _month_height)

\* the resize handler runs for a window of 520 x 340 and months of 100 x 150
Example520x340 ==
    /\ ResizeRuns
    /\ _saved_width = Some(520) /\ _saved_height = Some(340)
    /\ _month_width = 100 /\ _month_height = 150

\* C11 (as amended): auto-fit computes columns = max(1, (width - 24) div
\* monthWidth) and rows = max(1, (height - 50) div monthHeight); for
\* monthWidth = 100, monthHeight = 150 and a window of 520 x 340 the
\* debounced resize handler yields columns = 4 and rows = 1.
C11_AutoFit ==
    [][/\ AutoFitFormula
       /\ Example520x340 => (_grid_cols' = 4 /\ _grid_rows' = 1)]_vars

\* C11 as stated: the same formula, and 520 x 340 yields columns = 5 and
\* rows = 2.
C11_Stated ==
    [][/\ AutoFitFormula
       /\ Example520x340 => (_grid_cols' = 5 /\ _grid_rows' = 2)]_vars

\* the handler has run for the window of 520 x 340 and left a 4 x 1 grid
C11_Witness ==
    /\ ~fresh
    /\ win_state = "normal"
    /\ _saved_width = Some(520) /\ _saved_height = Some(340)
    /\ _month_width = 100 /\ _month_height = 150
    /\ resize_jobs = {} /\ _resize_after_id = None
    /\ _grid_cols = 4 /\ _grid_rows = 1
    /\ _current_total_months = 4

\* the resize handler runs and computes the grid on display
ResizeRunsSameGrid ==
    /\ ResizeRuns
    /\ Max(1, (_saved_width[1] - 24) \div _month_width) = _grid_cols
    /\ Max(1, (_saved_height[1] - 50) \div _month_height) = _grid_rows

\* C12: when the debounced resize handler computes the (columns, rows) on
\* display, the layout is not recomputed: no rebuild runs, and the grid
\* dimensions, the displayed month list, the panel pool, the center month
\* and the selection are left unchanged.
C12_NoRecompute ==
    [][ResizeRunsSameGrid =>
        /\ rebuild_tick' = rebuild_tick
        /\ UNCHANGED <<_grid_cols, _grid_rows, _current_total_months,
                       _panels, panels_created, center_year, center_month,
                       sel_start, sel_end, _dragging>>]_vars

\* The window was resized within the room of its two columns while two days
\* were selected: the handler has run (no timer is pending) and, as it did
\* not relayout, the file still holds the width of the resize before.
C12_Witness ==
    /\ ~fresh
    /\ win_state = "normal"
    /\ resize_jobs = {} /\ _resize_after_id = None
    /\ _grid_cols = 2 /\ _grid_rows = 1
    /\ Max(1, (_saved_width[1] - 24) \div _month_width) = 2
    /\ file.kind = "object"
    /\ file.data["grid_cols"] = JInt(2)
    /\ file.data["window_width"] # JInt(_saved_width[1])
    /\ sel_start = <<2025, 12, 31>> /\ sel_end = <<2026, 1, 1>>

\* a <Configure> event of the root window with the size <<w, h>> is taken
ResizeEvent(w, h) == Configure(w, h, TRUE) /\ ~_showing

\* C13: resize events are debounced.  An event that arrives while a timer is
\* pending cancels it and schedules a new one, so at most one debounce timer
\* is pending at any time, and a burst of events leads to one run of the
\* resize handler, which uses the window size of the last event: after
\* every event exactly one timer is pending and the size the handler will
\* read is the event's, and after the handler's run no timer is pending.
C13_Debounce ==
    /\ [](/\ Cardinality(resize_jobs) <= 1
          /\ resize_jobs = IF _resize_after_id = None THEN {}
                           ELSE {_resize_after_id[1]})
    /\ [][\A size \in Sizes :
            ResizeEvent(size[1], size[2]) =>
                /\ Cardinality(resize_jobs') = 1
                /\ _resize_after_id' # None
                /\ _saved_width' = Some(size[1])
                /\ _saved_height' = Some(size[2])]_vars
    /\ [][ResizeRuns =>
            /\ resize_jobs' = {}
            /\ _grid_cols' = FitCols(_saved_width[1], _month_width)
            /\ _grid_rows' = FitRows(_saved_height[1], _month_height)]_vars

\* after the 2 x 2 grid was fitted, resize events have arrived, the last with
\* the size 520 x 340: one timer is pending and the handler will read 520 x 340
C13_Witness ==
    /\ win_state = "normal"
    /\ Cardinality(resize_jobs) = 1
    /\ _resize_after_id # None
    /\ _saved_width = Some(520) /\ _saved_height = Some(340)
    /\ _grid_cols = 2 /\ _grid_rows = 2
    /\ file.kind = "object"
    /\ file.data["window_width"] = JInt(24 + 2 * _month_width + 6)

\* C14: while a programmatic show is in progress (_showing is true, from
\* show() until its grace period ends) resize-triggered auto-fit is
\* suppressed: under every interleaving of resize events, debounce timers
\* (one that was pending when show() began included) and show(), a run of
\* the resize handler while _showing is true changes neither the grid
\* columns nor the grid rows and triggers no relayout.
C14_SuppressedWhileShowing ==
    [][(_showing /\ ResizeRuns) =>
        /\ UNCHANGED <<_grid_cols, _grid_rows>>
        /\ rebuild_tick' = rebuild_tick]_vars

\* the grid columns and rows the settings file holds, as JSON values
StoredGrid ==
    IF file.kind = "object"
    THEN <<file.data["grid_cols"], file.data["grid_rows"]>>
    ELSE <<JAbsent, JAbsent>>

\* a step that persists the grid: an auto-fit that changes the grid, or a
\* hide of a window whose size is recorded
PersistStep ==
    \/ ResizeRuns /\ <<_grid_cols', _grid_rows'>> # <<_grid_cols, _grid_rows>>
    \/ /\ win_state = "normal" /\ (Close \/ Toggle)
       /\ _saved_width # None /\ _saved_height # None

\* C15: grid dimensions survive a restart.  Every step that persists the
\* grid (c, r) leaves c and r in the settings file; a new CalendarWindow
\* instance that finds c and r in the file loads _saved_grid_cols = c and
\* _saved_grid_rows = r; and its show() displays c columns x r rows, that is
\* c*r months.
C15_GridSurvivesRestart ==
    /\ [][PersistStep =>
            StoredGrid' = <<JInt(_grid_cols'), JInt(_grid_rows')>>]_vars
    /\ [](fresh /\ StoredGrid[1][1] = "int" /\ StoredGrid[2][1] = "int" =>
            /\ _saved_grid_cols = <<StoredGrid[1][2]>>
            /\ _saved_grid_rows = <<StoredGrid[2][2]>>)
    /\ [][(fresh /\ StoredGrid[1][1] = "int" /\ StoredGrid[2][1] = "int"
                /\ Toggle) =>
            LET c == StoredGrid[1][2]
                r == StoredGrid[2][2]
            IN  /\ _grid_cols' = c
                /\ _grid_rows' = r
                /\ _current_total_months' = c * r
                /\ {i \in 1..Len(_panels') : _panels'[i].pos # None}
                        = 1..(c * r)]_vars

\* a new instance has started on the file a 2 x 2 grid was persisted to
C15_Witness ==
    /\ fresh
    /\ StoredGrid = <<JInt(2), JInt(2)>>
    /\ _saved_grid_cols = <<2>>
    /\ _saved_grid_rows = <<2>>

\* the settings file holds no grid columns or no grid rows
NoStoredGrid ==
    StoredGrid[1] \in {JAbsent, JNull} \/ StoredGrid[2] \in {JAbsent, JNull}

\* C16: when the settings store holds no grid columns or no grid rows
\* (either is absent or null), show() displays the default grid of 3 columns
\* x 1 row.
C16_DefaultGrid ==
    [][(NoStoredGrid /\ win_state = "withdrawn" /\ Toggle) =>
            /\ _grid_cols' = 3
            /\ _grid_rows' = 1
            /\ _current_total_months' = 3
            /\ {i \in 1..Len(_panels') : _panels'[i].pos # None} = 1..3]_vars

\* the file holds 2 columns and no rows, and the window is shown: 3 x 1
C16_Witness ==
    /\ StoredGrid[1] = JInt(2)
    /\ StoredGrid[2] \in {JAbsent, JNull}
    /\ _saved_grid_cols = <<2>>
    /\ win_state = "normal"
    /\ _showing
    /\ <<_grid_cols, _grid_rows>> = <<3, 1>>

\* the window size and the grid the settings file f holds, as JSON values
StoredSizeGrid(f) ==
    [k \in SizeKeys |-> IF f.kind = "object" THEN f.data[k] ELSE JAbsent]

\* the window size (w, h) and the grid (c, r) the window holds, as JSON
HeldSizeGrid(w, h, c, r) ==
    [k \in SizeKeys |->
        CASE k = "window_width" -> ToJson(k, w)
          [] k = "window_height" -> ToJson(k, h)
          [] k = "grid_cols" -> JInt(c)
          [] k = "grid_rows" -> JInt(r)]

\* the window is hidden by the close button or by toggle()
HideStep == win_state = "normal" /\ (Close \/ Toggle)

\* OK in the settings dialog
DialogStep ==
    \E new_dark \in BOOLEAN, marker_vals \in MarkerPalettes :
        SettingsOk(new_dark, KeyList(_enabled_holidays, 1), _holiday_colors,
                   marker_vals)

\* the stored window size and grid equal the values the window holds after
\* the step
StoredIsHeld ==
    /\ file'.kind = "object"
    /\ StoredSizeGrid(file') =
            HeldSizeGrid(_saved_width', _saved_height', _grid_cols',
                         _grid_rows')

\* C17 as stated: the settings are written on every confirmation of the
\* settings dialog, every run of the debounced resize handler and every
\* hide, and after any of them the stored window size and grid dimensions
\* equal the values the window holds.
C17_Stated ==
    [][(DialogStep \/ ResizeRuns \/ HideStep) => StoredIsHeld]_vars

\* C17, amended: the settings dialog's confirmation always writes the file,
\* with the dialog's fields, and leaves the stored window size and grid as
\* load_settings() reads them; a run of the resize handler writes only when
\* it changes the grid, and a hide only when a window size is recorded, and
\* after these two the stored window size and grid equal the values the
\* window holds.
C17_WrittenOnTriggers ==
    /\ [][DialogStep =>
            /\ file'.kind = "object"
            /\ file'.data["dark_mode"] = JBool(_theme' = "dark")
            /\ file'.data["marker_colors"] = JStrList(_marker_colors')
            /\ \A k \in SizeKeys :
                    load_settings(file')[k] = load_settings(file)[k]]_vars
    /\ [][ResizeRuns =>
            IF <<_grid_cols', _grid_rows'>> # <<_grid_cols, _grid_rows>>
            THEN StoredIsHeld ELSE file' = file]_vars
    /\ [][HideStep =>
            IF _saved_width # None /\ _saved_height # None
            THEN StoredIsHeld ELSE file' = file]_vars

\* a window of 2 x 1 months whose size was recorded has been hidden: the
\* file holds the size and the grid the window holds
C17_Witness ==
    /\ win_state = "withdrawn"
    /\ ~fresh
    /\ _saved_width = <<24 + 2 * (FrameReqWidth + 12) + 6>>
    /\ <<_grid_cols, _grid_rows>> = <<2, 1>>
    /\ resize_jobs = {}
    /\ file.kind = "object"
    /\ StoredSizeGrid(file) =
            HeldSizeGrid(_saved_width, _saved_height, _grid_cols, _grid_rows)

\* the JSON value v has the type of the settings key k
WellTyped(k, v) ==
    CASE k = "dark_mode" -> v[1] = "bool"
      [] k \in SizeKeys -> v[1] \in {"int", "null"}
      [] k = "holidays" ->
            /\ v[1] = "list"
            /\ \A i \in 1..Len(v[2]) : v[2][i][1] = "str"
      [] k = "holiday_colors" -> v[1] = "object"

\* the JSON value v is no value of the settings key k: a bool where an int
\* is expected and a list with an item that is no string are left open
IllTyped(k, v) ==
    CASE k = "dark_mode" -> v[1] # "bool"
      [] k \in SizeKeys -> v[1] \notin {"int", "null", "bool"}
      [] k = "holidays" -> v[1] # "list"
      [] k = "holiday_colors" -> v[1] # "object"

\* the JSON value the settings file f holds for the key k
StoredValue(f, k) == IF f.kind = "object" THEN f.data[k] ELSE JAbsent

\* C18: load_settings never raises and returns a value for every settings
\* key, for any state of the settings file (missing, unreadable, not
\* decodable as text, not valid JSON, valid JSON whose top level is not an
\* object, an object with absent or ill-typed fields); each field that is
\* absent or ill-typed takes its own default while every well-typed field
\* keeps its stored value.
C18_LoadNeverRaises ==
    hist = <<"load_settings">> =>
        /\ ret[1] = "return"
        /\ \A k \in DefaultKeys :
            LET v == StoredValue(arg, k)
            IN  /\ (v = JAbsent \/ IllTyped(k, v)) => ret[2][k] = _DEFAULTS[k]
                /\ (v # JAbsent /\ WellTyped(k, v)) =>
                        ToJson(k, ret[2][k]) = v

\* C19: the marker palette is persisted view state: a palette confirmed in
\* the settings dialog is the palette a new instance starts with after a
\* restart, whatever resize and hide persistence steps ran in between.  The
\* palette a window holds is the one last confirmed, or the one it started
\* with, so a restart leaves the palette as it is.
C19_PalettePersisted ==
    [][Restart => _marker_colors' = _marker_colors]_vars

\* a range is selected and the pointer is up
SelectionSettled == ~_dragging /\ sel_start # None

\* the Escape key, the jump to today, or a pointer-down on a day cell
ExplicitClear ==
    \/ Escape
    \/ GoToday
    \/ \E d \in PointerTargets : d # None /\ OnPress(d)

\* the program exits and a new instance starts
NewInstance == Restart

\* show(), reached through toggle()
ShowStep == win_state = "withdrawn" /\ Toggle

\* C20 as stated: after pointer-up the endpoints of the selected range stay
\* unchanged through every operation of the running program, hide and show
\* included, until the range is cleared by Escape or the jump to today or
\* replaced by a pointer-down on a day cell.
C20_Stated ==
    [][(SelectionSettled /\ ~ExplicitClear /\ ~NewInstance) =>
            UNCHANGED <<sel_start, sel_end>>]_vars

\* C20, amended: show() is a fourth operation that clears the range; through
\* every other operation of the running program, hide included, the
\* endpoints stay unchanged after pointer-up.
C20_SelectionPersists ==
    [][(SelectionSettled /\ ~ExplicitClear /\ ~ShowStep /\ ~NewInstance) =>
            UNCHANGED <<sel_start, sel_end>>]_vars

\* the range from 31 December to 1 January is selected, the pointer is up
\* and the window has been hidden
C20_Witness ==
    /\ SelectionSettled
    /\ sel_start = <<2025, 12, 31>>
    /\ sel_end = <<2026, 1, 1>>
    /\ win_state = "withdrawn"

---------------------------------------------------------------------------
(* Properties of rendering, the tray, markers and the selection            *)

\* the rules of the precedence, highest first, and the colours of each
ColourRules == <<"today", "selection", "holiday", "weekend", "default">>
RuleApplies(rule, in) ==
    CASE rule = "today" -> in.is_today
      [] rule = "selection" -> in.in_sel
      [] rule = "holiday" -> Len(in.holiday_colors) >= 1
      [] rule = "weekend" -> in.is_weekend
      [] rule = "default" -> TRUE
RuleColours(rule, in) ==
    CASE rule = "today" ->
            <<(<<THEMES[in.theme].accent>>), THEMES[in.theme].today_fg>>
      [] rule = "selection" ->
            <<(<<THEMES[in.theme].sel_bg>>), THEMES[in.theme].sel_fg>>
      [] rule = "holiday" -> <<in.holiday_colors, "white">>
      [] rule = "weekend" ->
            <<(<<THEMES[in.theme].grid_bg>>), THEMES[in.theme].weekend_fg>>
      [] rule = "default" ->
            <<(<<THEMES[in.theme].grid_bg>>), THEMES[in.theme].day_fg>>
FirstRule(in) ==
    ColourRules[CHOOSE i \in 1..5 :
                    /\ RuleApplies(ColourRules[i], in)
                    /\ \A j \in 1..(i - 1) : ~RuleApplies(ColourRules[j], in)]

\* C21: the colours of a day cell follow the precedence today > inside
\* selection > has holiday colour(s) > weekend > default for every
\* combination of the flags: the first applicable rule alone decides the
\* background and the text colour.
C21_Precedence ==
    hist = <<"_day_colors">> => ret = RuleColours(FirstRule(arg), arg)

\* a selected holiday on a weekend that is today has the colours of today
C21_Witness ==
    /\ hist = <<"_day_colors">>
    /\ arg.is_today /\ arg.in_sel /\ arg.is_weekend
    /\ Len(arg.holiday_colors) = 2
    /\ arg.theme = "light"
    /\ ret = <<(<<"#0078D4">>), "white">>

\* the lower and the higher of the two endpoints of the selection `sel`
SelLow(sel) ==
    IF Ymd2Ord(sel[1][1], sel[1][2], sel[1][3])
            <= Ymd2Ord(sel[2][1], sel[2][2], sel[2][3])
    THEN sel[1] ELSE sel[2]
SelHigh(sel) == IF SelLow(sel) = sel[1] THEN sel[2] ELSE sel[1]

\* the inclusive number of days of the selection `sel`
DayCount(sel) ==
    Ymd2Ord(SelHigh(sel)[1], SelHigh(sel)[2], SelHigh(sel)[3])
        - Ymd2Ord(SelLow(sel)[1], SelLow(sel)[2], SelLow(sel)[3]) + 1

\* "1 week" / "n weeks", nothing for 0
Clause(n, singular) ==
    IF n = 0 THEN <<>>
    ELSE IF n = 1 THEN <<"1 " \o singular>>
    ELSE <<str(n) \o " " \o singular \o "s">>

\* the summary the claim describes for N days
Summary(N) ==
    LET W == N \div 7
        D == N % 7
        clauses == Clause(W, "week") \o Clause(D, "day")
    IN  str(N) \o " days  ("
            \o (IF Len(clauses) = 2 THEN clauses[1] \o ", " \o clauses[2]
                ELSE clauses[1])
            \o ")"

TodayString == "Today: 09.01.2025"

\* C22: the selection summary shows only the today string when there is no
\* range or the range is a single day; otherwise it reports the inclusive
\* day count N = (high - low) + 1 split into W = N div 7 whole weeks and
\* D = N mod 7 days, omits the weeks clause when W = 0 and the days clause
\* when D = 0, and uses singular week / day exactly when the count is 1.
C22_Summary ==
    hist = <<"_footer_text">> =>
        IF arg[1] = None \/ arg[1] = arg[2] THEN ret = TodayString
        ELSE /\ 7 * (DayCount(arg) \div 7) + (DayCount(arg) % 7) = DayCount(arg)
             /\ ret = DayMonth(SelLow(arg)) \o " → " \o DayMonth(SelHigh(arg))
                        \o ":  " \o Summary(DayCount(arg)) \o "     "
                        \o TodayString

\* the range from 1 January to 10 January 2025: 10 days, 1 week, 3 days
C22_Witness ==
    /\ hist = <<"_footer_text">>
    /\ arg = <<(<<2025, 1, 1>>), (<<2025, 1, 10>>)>>
    /\ ret = "01.01 → 10.01:  10 days  (1 week, 3 days)     Today: 09.01.2025"

\* a menu item of the tray runs its callback on the tray thread
TrayStep == on_show \/ on_exit \/ on_settings \/ on_about

\* C23: every action requested from the tray thread (show/toggle, open
\* settings, open about, exit) only enqueues a callback on the UI event
\* loop: a step of the tray thread adds one callback to the queue and
\* leaves the window state (visibility, center month, selection, grid,
\* settings file) as it is, and it can be taken whatever the window state
\* is, so under every interleaving the window state is read and changed
\* only by the steps of the UI thread.
C23_TrayOnlyEnqueues ==
    /\ [][TrayStep =>
            /\ UNCHANGED winVars
            /\ Len(after_queue') = Len(after_queue) + 1
            /\ SubSeq(after_queue', 1, Len(after_queue)) = after_queue]_vars
    /\ [](Len(after_queue) < MaxQueue =>
            ENABLED on_show /\ ENABLED on_exit /\ ENABLED on_settings
                /\ ENABLED on_about)

\* "Show Calendar" was chosen in the tray while a drag is going on in the
\* window: the toggle waits in the event loop
C23_Witness ==
    /\ after_queue = <<"toggle">>
    /\ _dragging
    /\ win_state = "normal"

\* every date from lo to hi
DateRange(lo, hi) ==
    {AddDays(lo, n) :
        n \in 0..(Ymd2Ord(hi[1], hi[2], hi[3]) - Ymd2Ord(lo[1], lo[2], lo[3]))}

\* the dates the claim says a right click on the day d applies to
StatedTargets(d) ==
    LET r == _sel_range(sel_start, sel_end)
    IN  IF r[1] # None /\ r[1] # r[2] /\ DateLE(r[1], d) /\ DateLE(d, r[2])
        THEN DateRange(r[1], r[2])
        ELSE {d}

\* C24: right-clicking a day inside a multi-day selection and choosing a
\* marker colour (or Remove) applies to every date of the selected range
\* low..high, whichever months are displayed at that moment; right-clicking
\* a day outside the selection, or with no selection or a single-day
\* selection, applies to the clicked date only.
C24_MarkerTargets ==
    [][\A d \in MarkerDates :
        /\ SetMarkers(d, _marker_colors[1]) =>
                _day_markers' =
                    {it \in _day_markers : it[1] \notin StatedTargets(d)}
                        \cup {<<t, _marker_colors[1]>> : t \in StatedTargets(d)}
        /\ RemoveMarkers(d) =>
                _day_markers' =
                    {it \in _day_markers : it[1] \notin StatedTargets(d)}]_vars


\* C25: Escape with a selection present unsets both endpoints, ends any drag
\* and leaves the window shown; Escape with no selection hides the window.
\* Every press leaves no selection behind, so the second of two consecutive
\* presses finds none and hides: after two presses there is no selection
\* and the window is hidden.
C25_EscapeClearsThenHides ==
    /\ [][Escape =>
            /\ sel_start' = None /\ sel_end' = None /\ ~_dragging'
            /\ IF sel_start # None
               THEN win_state' = "normal"
               ELSE win_state' = "withdrawn"]_vars
    /\ [](win_state = "normal" => ENABLED Escape)

\* a drag from 31 December to 1 January is under way in the shown window
\* when Escape is pressed
C25_Witness ==
    /\ win_state = "normal"
    /\ _dragging
    /\ sel_start = <<2025, 12, 31>>
    /\ sel_end = <<2026, 1, 1>>
    /\ ENABLED Escape


\* C30: in every reachable state the selection endpoints are both set or
\* both unset, the dragging flag is true only while both are set, and the
\* range returned by _sel_range is the two endpoints with low <= high,
\* whichever direction the drag went; a pointer-move or pointer-up event
\* received while not dragging changes neither endpoint.
C30_SelectionShape ==
    /\ [](/\ (sel_start = None) <=> (sel_end = None)
          /\ _dragging => (sel_start # None /\ sel_end # None)
          /\ LET r == _sel_range(sel_start, sel_end)
             IN  IF sel_start = None
                 THEN r = <<None, None>>
                 ELSE /\ {r[1], r[2]} = {sel_start, sel_end}
                      /\ DateLE(r[1], r[2]))
    /\ [][\A w \in PointerTargets :
            (~_dragging /\ (OnMotion(w) \/ OnRelease(w))) =>
                UNCHANGED <<sel_start, sel_end>>]_vars

\* a drag that went backwards, from 1 January to 31 December, has ended:
\* the range is 31 December .. 1 January and the pointer is up
C30_Witness ==
    /\ win_state = "normal"
    /\ ~_dragging
    /\ sel_start = <<2026, 1, 1>>
    /\ sel_end = <<2025, 12, 31>>
    /\ _sel_range(sel_start, sel_end) = <<<<2025, 12, 31>>, <<2026, 1, 1>>>>


\* the size recorded by _on_configure is the one show() gives the window
\* with the grid that is displayed
OwnSize ==
    /\ _saved_width = Some(ReqWidth(_grid_cols))
    /\ \E chrome \in NavFooterHeights :
            _saved_height = Some(ReqHeight(_grid_rows, chrome))

\* C27: auto-fit is a fixed point on the size the program itself sets: when
\* the resize handler runs on the size show() gave the window with c x r
\* months (width c * monthWidth + 12), it computes the same (c, r): the grid
\* stays, no relayout happens and the grid in the file stays.
C27_FitFixedPoint ==
    [][\A id \in resize_jobs :
        (OwnSize /\ HandleResize(id)) =>
            /\ UNCHANGED <<_grid_cols, _grid_rows, rebuild_tick>>
            /\ StoredGrid' = StoredGrid]_vars


\* C28: in every state after startup, also when the grid is restored from
\* any integers load_settings() accepts from the file, the displayed columns
\* and rows are both at least 1, at least one month is displayed and the
\* center month is among the displayed months.
C28_GridAtLeastOne ==
    /\ _grid_cols >= 1
    /\ _grid_rows >= 1
    /\ _current_total_months >= 1
    /\ <<center_year, center_month>> \in DisplayedMonths


\* C29: each show() keeps _showing true until the grace timer it scheduled
\* itself fires.  The timers fire in the order they were set, so the timer
\* of the latest show() is pending exactly while any timer is pending: as
\* long as one is pending, _showing is true, also when the window was hidden
\* and shown again before the timer of an earlier show() fired.
C29_ShowingUntilOwnTimer ==
    end_showing_jobs > 0 => _showing


\* the entries of the date d in the holiday map hmap
EntriesIn(hmap, d) == IF d \in DOMAIN hmap THEN hmap[d] ELSE <<>>

\* C26: _update_highlight() gives every visible day cell the colours, the
\* font and the marker a full rebuild would give it in the same state; the
\* weekend flag by weekday equals the one by grid column; and the holiday
\* map in use holds, for every displayed date, the holidays of the enabled
\* keys.
C26_HighlightIsRebuild ==
    /\ _update_highlight = RebuildCells
    /\ \A ym \in DisplayedMonths :
        LET grid == month_grid(ym[1], ym[2])
            hmap == holidays_for_year(ym[1], KeyList(_enabled_holidays, 1))
        IN  \A r \in 1..Len(grid), c \in 0..6 :
                grid[r][c + 1] # None =>
                    LET d == <<ym[1], ym[2], grid[r][c + 1][1]>>
                    IN  /\ (Weekday(d[1], d[2], d[3]) >= 5) <=> (c >= 5)
                        /\ EntriesIn(_holiday_map, d) = EntriesIn(hmap, d)

\* the window shows 1 January 2026 with the holidays of two countries, as
\* part of the selection 1..3 January, with a marker; 3 January, a Saturday,
\* is in the selection too
C26_Witness ==
    /\ win_state = "normal"
    /\ _holidays_visible
    /\ _enabled_holidays = {"ch_neujahr", "de_neujahr"}
    /\ Len(EntriesIn(_holiday_map, <<2026, 1, 1>>)) = 2
    /\ _sel_range(sel_start, sel_end) = <<<<2026, 1, 1>>, <<2026, 1, 3>>>>
    /\ <<2026, 1, 1>> \in Marked
    /\ \E cell \in _update_highlight :
            cell[1] = <<2026, 1, 1>> /\ cell[2].fg = "white"

===========================================================================
